---- MODULE Spec2Model ----
(***************************************************************************)
(* Model of the monster-rig editor: the zustand editor store (skeleton,    *)
(* animation clips, timeline, undo history), the AnimationController       *)
(* (keyframe sampling, forward kinematics, rest pose) and the              *)
(* SkeletonBinding component (activation and rebinding).                   *)
(*                                                                         *)
(* Numbers are exact rationals <<n, d>> (d > 0, lowest terms); a 3-vector  *)
(* is a triple of rationals and a quaternion a 4-tuple [x, y, z, w], as in *)
(* BoneData.  Bone and clip ids (uuidv4 in the source) are fresh naturals  *)
(* taken from the counter nextId; the null parent is Null.                 *)
(***************************************************************************)
EXTENDS Integers, Sequences, FiniteSets, TLC

\* ------------------------------------------------------------------ bounds
MaxIds == 3          \* ids (bones and clips) handed out in one behaviour
MaxEdits == 4        \* history-recorded edits kept in one behaviour
MaxKeyframes == 2    \* frames 0..MaxKeyframes-1 offered to the keyframe calls
MaxReach == 3        \* largest bone coordinate from which playback is followed
MaxFrames == 2       \* frameCount of the clips that are played
MaxRecorded == 52    \* history-recorded edits made before the undos start
MaxDenominator == 2  \* painting goes on while no stored weight has a larger denominator

\* -------------------------------------------------------- program constants
Null == 0
maxHistorySize == 50
InitialFrameCount == 60

\* ------------------------------------------------------- exact arithmetic
Abs(n) == IF n < 0 THEN -n ELSE n

RECURSIVE GCD(_, _)
GCD(a, b) == IF b = 0 THEN a ELSE GCD(b, a % b)

\* the rational n/d in lowest terms with a positive denominator
Q(n, d) ==
  LET s == IF d < 0 THEN -1 ELSE 1
      g == GCD(Abs(n), Abs(d))
  IN  IF n = 0 THEN <<0, 1>> ELSE <<(s * n) \div g, (s * d) \div g>>

R(n) == <<n, 1>>
RAdd(a, b) ==
  Q(a[1] * (b[2] \div GCD(a[2], b[2])) + b[1] * (a[2] \div GCD(a[2], b[2])),
    a[2] * (b[2] \div GCD(a[2], b[2])))
RSub(a, b) == RAdd(a, <<-b[1], b[2]>>)
RMul(a, b) == Q(a[1] * b[1], a[2] * b[2])
RDiv(a, b) == Q(a[1] * b[2], a[2] * b[1])
RNeg(a) == <<-a[1], a[2]>>
RLt(a, b) == a[1] * b[2] < b[1] * a[2]
RLe(a, b) == a[1] * b[2] <= b[1] * a[2]
RAbs(a) == <<Abs(a[1]), a[2]>>
RFloor(a) == a[1] \div a[2]

V3(x, y, z) == <<R(x), R(y), R(z)>>
Quat(x, y, z, w) == <<R(x), R(y), R(z), R(w)>>
IdentityQuat == Quat(0, 0, 0, 1)

VAdd(u, v) == [i \in 1..3 |-> RAdd(u[i], v[i])]
VSub(u, v) == [i \in 1..3 |-> RSub(u[i], v[i])]

\* THREE.Quaternion.invert: the conjugate
QInvert(q) == <<RNeg(q[1]), RNeg(q[2]), RNeg(q[3]), q[4]>>

\* THREE.Quaternion.multiply: the Hamilton product a * b
QMul(a, b) ==
  <<RAdd(RAdd(RMul(a[1], b[4]), RMul(a[4], b[1])),
         RSub(RMul(a[2], b[3]), RMul(a[3], b[2]))),
    RAdd(RAdd(RMul(a[2], b[4]), RMul(a[4], b[2])),
         RSub(RMul(a[3], b[1]), RMul(a[1], b[3]))),
    RAdd(RAdd(RMul(a[3], b[4]), RMul(a[4], b[3])),
         RSub(RMul(a[1], b[2]), RMul(a[2], b[1]))),
    RSub(RSub(RMul(a[4], b[4]), RMul(a[1], b[1])),
         RAdd(RMul(a[2], b[2]), RMul(a[3], b[3])))>>

\* THREE.Vector3.applyQuaternion: v + w*t + cross(q.xyz, t), t = 2*cross(q.xyz, v)
ApplyQuaternion(v, q) ==
  LET two == R(2)
      tx == RMul(two, RSub(RMul(q[2], v[3]), RMul(q[3], v[2])))
      ty == RMul(two, RSub(RMul(q[3], v[1]), RMul(q[1], v[3])))
      tz == RMul(two, RSub(RMul(q[1], v[2]), RMul(q[2], v[1])))
  IN  <<RAdd(v[1], RAdd(RMul(q[4], tx), RSub(RMul(q[2], tz), RMul(q[3], ty)))),
        RAdd(v[2], RAdd(RMul(q[4], ty), RSub(RMul(q[3], tx), RMul(q[1], tz)))),
        RAdd(v[3], RAdd(RMul(q[4], tz), RSub(RMul(q[1], ty), RMul(q[2], tx))))>>

\* ---------------------------------------------------------- sequence help
SeqFilter(s, Keep(_)) == SelectSeq(s, Keep)
Range(s) == {s[i] : i \in DOMAIN s}
\* Array.prototype.findIndex, 1-based: the first index whose element
\* satisfies P, or 0 when there is none
FindIndex(s, P(_)) ==
  IF \E i \in DOMAIN s : P(s[i])
  THEN CHOOSE i \in DOMAIN s : P(s[i]) /\ \A j \in 1..(i - 1) : ~P(s[j])
  ELSE 0

VARIABLES store, ac, sb, loadedModel, nextId, obs, dialogs
vars == <<store, ac, sb, loadedModel, nextId, obs, dialogs>>

\* ------------------------------------------------------------ editor store
\* restPoseSnapshot: null, or a map bone id -> {position, rotation, scale}
NoSnapshot == [set |-> FALSE, pose |-> <<>>]

InitialAutoWeightSettings ==
  [method |-> "envelope", falloff |-> Q(5, 2),
   smoothIterations |-> 2, neighborWeight |-> Q(3, 5)]

\* getInitialState (store.skeleton stands for skeleton.bones; modelPath "" is null)
InitialStore ==
  [modelPath |-> "", isDirty |-> FALSE,
   skeleton |-> <<>>, weightMap |-> <<>>,
   animations |-> <<>>, currentAnimationId |-> Null,
   mode |-> "select",
   selection |-> [type |-> "none", ids |-> <<>>],
   timeline |-> [currentFrame |-> R(0), isPlaying |-> FALSE, fps |-> R(30),
                loop |-> TRUE],
   autoWeightSettings |-> InitialAutoWeightSettings,
   restPoseSnapshot |-> NoSnapshot,
   history |-> <<>>, historyIndex |-> -1]

\* refs of the AnimationController component at mount
InitialAC ==
  [lastFrame |-> R(-1), restPose |-> <<>>, hasInitialized |-> FALSE,
   prevAnimationId |-> Null, prevIsPlaying |-> FALSE, isPlayingRef |-> FALSE]

\* refs of the SkeletonBinding component at mount; built stands for
\* skinnedMeshesRef.current.length > 0, the hashes "" are the empty tuple;
\* posed is the editor skeleton whose transforms the bones of the skinned
\* meshes carry (empty when there is no skinned mesh)
\* originalMeshes and skinnedMeshes are the meshes the two refs hold; hidden
\* and inScene are the scene as the binder changes it: the original meshes
\* whose visible flag it cleared and the skinned meshes added to a parent
InitialSB ==
  [isActive |-> FALSE, lastStructureHash |-> <<>>, lastAutoWeightHash |-> <<>>,
   built |-> FALSE, posed |-> <<>>,
   originalMeshes |-> {}, skinnedMeshes |-> {}, hidden |-> {}, inScene |-> {}]

\* what the current step did (observation only, reset at every step)
NoObs ==
  [op |-> "none", id |-> Null, parentId |-> Null, rejected |-> FALSE,
   restInits |-> 0, rebuilds |-> 0, cleanups |-> 0,
   fkPasses |-> 0, frameDelta |-> R(0)]

\* the editor as the operators below see it; loadedModel tells whether
\* ModelLoader has published the displayed model
World ==
  [store |-> store, ac |-> ac, sb |-> sb, obs |-> NoObs, loadedModel |-> loadedModel]

\* the state of the two oracle dialogs (React state of AIAnimationDialog and
\* AutoBonesDialog): whether a call is awaited, the bones the awaiting
\* handler was called with, the suggestions the bone dialog lists
InitialDialogs ==
  [animation |-> [isGenerating |-> FALSE, bones |-> <<>>],
   autoBones |-> [isGenerating |-> FALSE, suggestions |-> <<>>]]

\* a step of the editor outside the dialogs
Commit(w) ==
  \E next \in {w} :
    /\ store' = next.store
    /\ ac' = next.ac
    /\ sb' = next.sb
    /\ obs' = next.obs
    /\ dialogs' = dialogs

\* Viewport (SkeletonBinding, AnimationController) is rendered iff modelPath is set
Mounted(s) == s.modelPath # ""

BoneIds(bones) == {bones[i].id : i \in DOMAIN bones}
BoneIndex(bones, id) == FindIndex(bones, LAMBDA b : b.id = id)

\* --------------------------------------------------- AnimationController
\* calculateLocalOffset; pIdx is the parent's index in bones, 0 for undefined
calculateLocalOffset(bone, bones, pIdx) ==
  IF pIdx = 0 THEN bone.position
  ELSE ApplyQuaternion(VSub(bone.position, bones[pIdx].position),
                       QInvert(bones[pIdx].rotation))

\* initializeRestPose: snapshot of every bone of the store's skeleton
initializeRestPose(w) ==
  LET bones == w.store.skeleton
      entry(i) ==
        [position |-> bones[i].position,
         rotation |-> bones[i].rotation,
         localOffset |->
           calculateLocalOffset(bones[i], bones,
             IF bones[i].parentId # Null
             THEN BoneIndex(bones, bones[i].parentId) ELSE 0)]
      \* a later bone with the same id overwrites an earlier one
      last(id) == CHOOSE i \in DOMAIN bones :
                    bones[i].id = id /\ \A j \in DOMAIN bones : bones[j].id = id => j <= i
  IN  [w EXCEPT !.ac.restPose = [id \in BoneIds(bones) |-> entry(last(id))],
                !.ac.hasInitialized = TRUE,
                !.obs.restInits = @ + 1]

\* a listener that never sees playback start
PlaybackStartIgnored(s, prevIsPlaying) == FALSE

\* "playback just started" of the listener
PlaybackJustStarted(s, prevIsPlaying) == s.timeline.isPlaying /\ ~prevIsPlaying

\* the listener AnimationController subscribes to the store
ACSubscribe(w) ==
  LET s == w.store
      w1 == IF s.currentAnimationId # w.ac.prevAnimationId
            THEN [w EXCEPT !.ac.prevAnimationId = s.currentAnimationId,
                           !.ac.hasInitialized = FALSE]
            ELSE w
      w2 == IF PlaybackJustStarted(s, w1.ac.prevIsPlaying)
            THEN initializeRestPose(w1) ELSE w1
  IN  [w2 EXCEPT !.ac.prevIsPlaying = s.timeline.isPlaying]

\* ------------------------------------------------------- SkeletonBinding
\* a hash that also tells where the bones are
StructureHashWithPose(bones) ==
  [i \in DOMAIN bones |-> <<bones[i].id, bones[i].parentId, bones[i].position>>]

\* bones.map(b => `${b.id}:${b.parentId}`).join('|')
StructureHash(bones) == [i \in DOMAIN bones |-> <<bones[i].id, bones[i].parentId>>]
\* `${method}:${falloff}:${smoothIterations}:${neighborWeight}`
AutoWeightHash(a) == <<a.method, a.falloff, a.smoothIterations, a.neighborWeight>>

\* the meshes of the displayed model that are not skinned meshes
ModelMeshes == {"body"}

\* a cleanup that removes the skinned meshes and leaves the originals hidden
cleanupWithoutRestore(w) ==
  [w EXCEPT !.sb.built = FALSE,
            !.sb.posed = <<>>,
            !.sb.originalMeshes = {},
            !.sb.inScene = @ \ w.sb.skinnedMeshes,
            !.sb.skinnedMeshes = {},
            !.sb.lastStructureHash = <<>>,
            !.sb.lastAutoWeightHash = <<>>,
            !.obs.cleanups = @ + 1]

cleanupSkinnedMeshes(w) ==
  [w EXCEPT !.sb.built = FALSE,
            !.sb.posed = <<>>,
            !.sb.hidden = @ \ w.sb.originalMeshes,
            !.sb.originalMeshes = {},
            !.sb.inScene = @ \ w.sb.skinnedMeshes,
            !.sb.skinnedMeshes = {},
            !.sb.lastStructureHash = <<>>,
            !.sb.lastAutoWeightHash = <<>>,
            !.obs.cleanups = @ + 1]

\* buildThreeSkeleton yields a skeleton iff some bone has no parent; every
\* mesh of the loaded model then gets a skinned mesh
BuildsSkeleton(bones) == \E i \in DOMAIN bones : bones[i].parentId = Null

\* rebuildSkinnedMeshes: obs.rebuilds counts the calls that discard the
\* cached binding (and build a new one when a skeleton can be built)
rebuildSkinnedMeshes(w, bones, autoWeightSettings) ==
  IF ~w.loadedModel \/ Len(bones) = 0
  THEN [cleanupSkinnedMeshes(w) EXCEPT !.obs.rebuilds = @ + 1]
  ELSE IF /\ StructureHash(bones) = w.sb.lastStructureHash
          /\ AutoWeightHash(autoWeightSettings) = w.sb.lastAutoWeightHash
          /\ w.sb.built
       THEN w
       ELSE [cleanupSkinnedMeshes(w) EXCEPT
               !.sb.lastStructureHash = StructureHash(bones),
               !.sb.lastAutoWeightHash = AutoWeightHash(autoWeightSettings),
               !.sb.built = BuildsSkeleton(bones),
               !.sb.posed = IF BuildsSkeleton(bones) THEN bones ELSE <<>>,
               !.sb.originalMeshes = IF BuildsSkeleton(bones) THEN ModelMeshes ELSE {},
               !.sb.skinnedMeshes = IF BuildsSkeleton(bones) THEN ModelMeshes ELSE {},
               !.sb.hidden = IF BuildsSkeleton(bones) THEN @ \cup ModelMeshes ELSE @,
               !.sb.inScene = IF BuildsSkeleton(bones) THEN @ \cup ModelMeshes ELSE @,
               !.obs.rebuilds = @ + 1]

\* a binder that follows the mode only
ActiveInAnimateModeOnly(s) == s.mode = "animate"

checkShouldBeActive(s) == s.mode = "animate" \/ s.timeline.isPlaying

handleStateChange(w) ==
  LET shouldBeActive == checkShouldBeActive(w.store)
  IN  IF shouldBeActive /\ ~w.sb.isActive
      THEN LET w1 == [w EXCEPT !.sb.isActive = TRUE]
           IN  IF Len(w.store.skeleton) > 0
               THEN rebuildSkinnedMeshes(w1, w.store.skeleton, w.store.autoWeightSettings)
               ELSE w1
      ELSE IF ~shouldBeActive /\ w.sb.isActive
           THEN cleanupSkinnedMeshes([w EXCEPT !.sb.isActive = FALSE])
           ELSE w

ModeOrPlaybackChanged(s, prev) ==
  s.mode # prev.mode \/ s.timeline.isPlaying # prev.timeline.isPlaying

BindingStale(w, prev) ==
  \/ StructureHash(w.store.skeleton) # StructureHash(prev.skeleton)
  \/ AutoWeightHash(w.store.autoWeightSettings) # w.sb.lastAutoWeightHash

\* the listener SkeletonBinding subscribes to the store (state, prevState)
SBSubscribe(w, prev) ==
  LET w1 == IF ModeOrPlaybackChanged(w.store, prev) THEN handleStateChange(w) ELSE w
  IN  IF w1.sb.isActive /\ BindingStale(w1, prev)
      THEN rebuildSkinnedMeshes(w1, w1.store.skeleton, w1.store.autoWeightSettings)
      ELSE w1

\* zustand setState: replace the state and, when it changed, call the
\* listeners in subscription order (SkeletonBinding mounts before AnimationController)
Set(w, s2) ==
  IF s2 = w.store THEN w
  ELSE IF ~Mounted(w.store) THEN [w EXCEPT !.store = s2]
  ELSE ACSubscribe(SBSubscribe([w EXCEPT !.store = s2], w.store))

\* mount effects of the Viewport: fresh refs, SkeletonBinding's initial check
MountViewport(w) ==
  handleStateChange([w EXCEPT !.ac = InitialAC, !.sb = InitialSB])

\* unmount: the effect cleanup of SkeletonBinding; the refs are gone
UnmountViewport(w) ==
  [cleanupSkinnedMeshes(w) EXCEPT !.ac = InitialAC, !.sb = InitialSB]

\* ------------------------------------------------------ store: history
pushHistory(w) ==
  LET s == w.store
      historyState == [skeleton |-> s.skeleton, weightMap |-> s.weightMap,
                       animations |-> s.animations]
      kept == Append(SubSeq(s.history, 1, s.historyIndex + 1), historyState)
  IN  Set(w, IF Len(kept) > maxHistorySize
             THEN [s EXCEPT !.history = Tail(kept)]
             ELSE [s EXCEPT !.history = kept, !.historyIndex = @ + 1])

undo(w) ==
  LET s == w.store
  IN  IF s.historyIndex < 0 THEN w
      ELSE LET entry == s.history[s.historyIndex + 1]
           IN  Set(w, [s EXCEPT !.skeleton = entry.skeleton,
                                !.weightMap = entry.weightMap,
                                !.animations = entry.animations,
                                !.historyIndex = @ - 1,
                                !.isDirty = TRUE])

redo(w) ==
  LET s == w.store
  IN  IF s.historyIndex >= Len(s.history) - 1 THEN w
      ELSE LET entry == s.history[s.historyIndex + 2]
           IN  Set(w, [s EXCEPT !.skeleton = entry.skeleton,
                                !.weightMap = entry.weightMap,
                                !.animations = entry.animations,
                                !.historyIndex = @ + 1,
                                !.isDirty = TRUE])

\* ----------------------------------------------------- store: skeleton
\* createInitialBone (length and rotationLimits are read by nothing modelled)
createInitialBone(id, position, parentId, name) ==
  [id |-> id, name |-> IF parentId # Null THEN name ELSE "root",
   parentId |-> parentId, position |-> position,
   rotation |-> IdentityQuat, scale |-> V3(1, 1, 1)]

addBone(w, id, position, parentId, name) ==
  pushHistory(Set(w, [w.store EXCEPT
    !.skeleton = Append(@, createInitialBone(id, position, parentId, name)),
    !.isDirty = TRUE,
    !.restPoseSnapshot = NoSnapshot]))

\* updateBone with updates = {[field]: value}
updateBone(w, id, field, value) ==
  LET s == w.store
      i == BoneIndex(s.skeleton, id)
  IN  IF i = 0 THEN w
      ELSE Set(w, [s EXCEPT
             !.skeleton[i][field] = value,
             !.isDirty = TRUE,
             !.restPoseSnapshot =
               IF field \in {"position", "rotation", "scale"} THEN NoSnapshot ELSE @])

deleteBone(w, id) ==
  LET s == w.store
      i == BoneIndex(s.skeleton, id)
  IN  IF i = 0 THEN w
      ELSE LET bone == s.skeleton[i]
               reparented == [j \in DOMAIN s.skeleton |->
                                IF s.skeleton[j].parentId = id
                                THEN [s.skeleton[j] EXCEPT !.parentId = bone.parentId]
                                ELSE s.skeleton[j]]
           IN  pushHistory(Set(w, [s EXCEPT
                 !.skeleton = SelectSeq(reparented, LAMBDA b : b.id # id),
                 !.isDirty = TRUE,
                 !.restPoseSnapshot = NoSnapshot,
                 !.selection = IF \E k \in DOMAIN @.ids : @.ids[k] = id
                               THEN [type |-> "none", ids |-> <<>>] ELSE @]))

setBoneParent(w, boneId, parentId) ==
  LET s == w.store
      i == BoneIndex(s.skeleton, boneId)
  IN  pushHistory(IF i = 0 THEN w
                  ELSE Set(w, [s EXCEPT !.skeleton[i].parentId = parentId,
                                        !.isDirty = TRUE,
                                        !.restPoseSnapshot = NoSnapshot]))

setSelection(w, selection) == Set(w, [w.store EXCEPT !.selection = selection])

\* ------------------------------------------------- hierarchy, as the UI walks it
ChildIds(bones, id) == {bones[i].id : i \in {j \in DOMAIN bones : bones[j].parentId = id}}

\* ids reached from the ids in from by following child links at most n times
RECURSIVE Below(_, _, _)
Below(bones, from, n) ==
  IF n = 0 THEN {}
  ELSE LET kids == UNION {ChildIds(bones, id) : id \in from}
       IN  kids \cup Below(bones, kids, n - 1)

\* getDescendantIds of PropertiesPanel
getDescendantIds(bones, boneId) == Below(bones, {boneId}, Len(bones))

\* getDescendantIds recurses for ever when a bone below boneId lies on a cycle
DescendantWalkEnds(bones, boneId) ==
  Below(bones, {boneId}, Len(bones) + 1) = Below(bones, {boneId}, Len(bones))
  /\ \A id \in getDescendantIds(bones, boneId) \cup {boneId} :
        id \notin Below(bones, {id}, Len(bones))

availableParents(bones, boneId) ==
  {id \in BoneIds(bones) : id # boneId /\ id \notin getDescendantIds(bones, boneId)}

\* the bones the hierarchy tree shows: the roots and everything below them
ShownInTree(bones) ==
  LET roots == ChildIds(bones, Null)
  IN  roots \cup Below(bones, roots, Len(bones))

\* handleDrop's walk from the drop target up the parent links
RECURSIVE ReachesUp(_, _, _, _)
ReachesUp(bones, fromId, draggedId, n) ==
  LET i == BoneIndex(bones, fromId)
  IN  IF i = 0 \/ n = 0 THEN FALSE
      ELSE IF bones[i].id = draggedId THEN TRUE
      ELSE ReachesUp(bones, bones[i].parentId, draggedId, n - 1)

\* ---------------------------------------------------- skeleton handlers
\* HierarchyPanel BoneTreeItem.handleDrop
handleDrop(w, draggedBoneId, targetId) ==
  IF draggedBoneId = targetId
     \/ ReachesUp(w.store.skeleton, targetId, draggedBoneId, Len(w.store.skeleton))
  THEN [w EXCEPT !.obs.rejected = TRUE]
  ELSE pushHistory(setBoneParent(w, draggedBoneId, targetId))

\* HierarchyPanel.handleDropOnRoot
handleDropOnRoot(w, draggedBoneId) ==
  pushHistory(setBoneParent(w, draggedBoneId, Null))

\* PropertiesPanel BoneProperties.handleParentChange
handleParentChange(w, boneId, newParentId) ==
  pushHistory(setBoneParent(w, boneId, newParentId))

\* HierarchyPanel.handleUnparent: selection.ids.forEach over the ids selected
\* when the handler started
RECURSIVE UnparentEach(_, _)
UnparentEach(w, ids) ==
  IF ids = <<>> THEN w ELSE UnparentEach(setBoneParent(w, Head(ids), Null), Tail(ids))

handleUnparent(w) ==
  IF w.store.selection.type = "bone" THEN UnparentEach(w, w.store.selection.ids) ELSE w

\* HierarchyPanel.handleDeleteSelected and the menu's onDelete
RECURSIVE DeleteEach(_, _)
DeleteEach(w, ids) ==
  IF ids = <<>> THEN w ELSE DeleteEach(deleteBone(w, Head(ids)), Tail(ids))

handleDeleteSelected(w) ==
  IF w.store.selection.type = "bone" THEN DeleteEach(w, w.store.selection.ids) ELSE w

\* BoneCreator.handleClick: the single selected bone becomes the parent
BoneCreatorClick(w, id, previewPosition, name) ==
  LET sel == w.store.selection
      parentId == IF sel.type = "bone" /\ Len(sel.ids) = 1 THEN sel.ids[1] ELSE Null
  IN  addBone(w, id, previewPosition, parentId, name)

\* ------------------------------------------------ store: editor state
\* setMode: leaving animate mode stops playback and restores the rest pose
\* of every bone the store's snapshot holds
setMode(w, mode) ==
  LET s == w.store
      restore(b) ==
        IF b.id \in DOMAIN s.restPoseSnapshot.pose
        THEN [b EXCEPT !.position = s.restPoseSnapshot.pose[b.id].position,
                       !.rotation = s.restPoseSnapshot.pose[b.id].rotation,
                       !.scale = s.restPoseSnapshot.pose[b.id].scale]
        ELSE b
  IN  Set(w, IF s.mode = "animate" /\ mode # "animate"
             THEN [s EXCEPT !.mode = mode,
                            !.timeline.isPlaying = FALSE,
                            !.skeleton = IF s.restPoseSnapshot.set
                                         THEN [i \in DOMAIN @ |-> restore(@[i])]
                                         ELSE @]
             ELSE [s EXCEPT !.mode = mode])

\* updateTimeline(partial): Object.assign(state.timeline, partial); partial
\* is a function on the fields it sets
updateTimeline(w, partial) ==
  Set(w, [w.store EXCEPT !.timeline =
            [f \in DOMAIN @ |-> IF f \in DOMAIN partial THEN partial[f] ELSE @[f]]])

\* updateAutoWeightSettings(settings): merge, clamp, replace
updateAutoWeightSettings(w, settings) ==
  LET cur == w.store.autoWeightSettings
      next == [f \in DOMAIN cur |-> IF f \in DOMAIN settings THEN settings[f] ELSE cur[f]]
      clamp(lo, x, hi) == IF RLt(x, lo) THEN lo ELSE IF RLt(hi, x) THEN hi ELSE x
      rounded == RFloor(RAdd(R(next.smoothIterations), <<1, 2>>))
  IN  Set(w, [w.store EXCEPT !.autoWeightSettings =
        [method |-> IF next.method \in {"heatmap", "nearest"} THEN next.method
                    ELSE "envelope",
         falloff |-> clamp(<<1, 10>>, next.falloff, R(6)),
         smoothIterations |-> IF rounded < 0 THEN 0 ELSE IF rounded > 10 THEN 10 ELSE rounded,
         neighborWeight |-> clamp(R(0), next.neighborWeight, R(1))]])

setModelPath(w, path) == Set(w, [w.store EXCEPT !.modelPath = path, !.isDirty = TRUE])

\* newProject: Object.assign(state, getInitialState())
newProject(w) == Set(w, InitialStore)

\* ---------------------------------------------------- store: animations
\* keyframes.sort((a, b) => a.frame - b.frame): the sort is stable
InsertByFrame(sorted, k) ==
  LET n == Cardinality({i \in DOMAIN sorted : RLe(sorted[i].frame, k.frame)})
  IN  SubSeq(sorted, 1, n) \o <<k>> \o SubSeq(sorted, n + 1, Len(sorted))

RECURSIVE SortByFrame(_)
SortByFrame(s) ==
  IF s = <<>> THEN <<>>
  ELSE InsertByFrame(SortByFrame(SubSeq(s, 1, Len(s) - 1)), s[Len(s)])

createInitialAnimation(id, name) ==
  [id |-> id, name |-> name, fps |-> R(30), frameCount |-> R(InitialFrameCount),
   tracks |-> <<>>]

AnimationIndex(animations, id) == FindIndex(animations, LAMBDA a : a.id = id)
TrackIndex(tracks, boneId, property) ==
  FindIndex(tracks, LAMBDA t : t.boneId = boneId /\ t.property = property)

addAnimation(w, id, name) ==
  Set(w, [w.store EXCEPT !.animations = Append(@, createInitialAnimation(id, name)),
                         !.currentAnimationId = id,
                         !.isDirty = TRUE])

\* updateAnimation(id, {[field]: value})
updateAnimation(w, id, field, value) ==
  LET a == AnimationIndex(w.store.animations, id)
  IN  IF a = 0 THEN w
      ELSE Set(w, [w.store EXCEPT !.animations[a][field] = value, !.isDirty = TRUE])

setCurrentAnimation(w, id) == Set(w, [w.store EXCEPT !.currentAnimationId = id])

addKeyframe(w, animationId, boneId, property, frame, value, interpolation) ==
  LET s == w.store
      a == AnimationIndex(s.animations, animationId)
  IN  pushHistory(
        IF a = 0 THEN w
        ELSE LET tracks == s.animations[a].tracks
                 found == TrackIndex(tracks, boneId, property)
                 tracks1 == IF found = 0
                            THEN Append(tracks, [boneId |-> boneId, property |-> property,
                                                 keyframes |-> <<>>])
                            ELSE tracks
                 t == IF found = 0 THEN Len(tracks1) ELSE found
                 others == SelectSeq(tracks1[t].keyframes, LAMBDA k : k.frame # frame)
                 keyframe == [frame |-> frame, value |-> value,
                              interpolation |-> interpolation]
             IN  Set(w, [s EXCEPT
                   !.animations[a].tracks =
                     [tracks1 EXCEPT ![t].keyframes = SortByFrame(Append(others, keyframe))],
                   !.isDirty = TRUE]))

\* Object.assign(keyframe, updates): updates is a function on the fields it sets
updateKeyframe(w, animationId, boneId, property, frame, updates) ==
  LET s == w.store
      a == AnimationIndex(s.animations, animationId)
      t == IF a = 0 THEN 0 ELSE TrackIndex(s.animations[a].tracks, boneId, property)
      k == IF t = 0 THEN 0
           ELSE FindIndex(s.animations[a].tracks[t].keyframes, LAMBDA kf : kf.frame = frame)
  IN  IF k = 0 THEN w
      ELSE Set(w, [s EXCEPT
             !.animations[a].tracks[t].keyframes[k] =
               [f \in DOMAIN @ |-> IF f \in DOMAIN updates THEN updates[f] ELSE @[f]],
             !.isDirty = TRUE])

deleteKeyframe(w, animationId, boneId, property, frame) ==
  LET s == w.store
      a == AnimationIndex(s.animations, animationId)
      t == IF a = 0 THEN 0 ELSE TrackIndex(s.animations[a].tracks, boneId, property)
  IN  pushHistory(
        IF t = 0 THEN w
        ELSE LET tracks == s.animations[a].tracks
                 left == SelectSeq(tracks[t].keyframes, LAMBDA k : k.frame # frame)
             IN  Set(w, [s EXCEPT
                   !.animations[a].tracks =
                     IF left = <<>>
                     THEN SubSeq(tracks, 1, t - 1) \o SubSeq(tracks, t + 1, Len(tracks))
                     ELSE [tracks EXCEPT ![t].keyframes = left],
                   !.isDirty = TRUE]))

\* ------------------------------------------------- aiAnimationService
\* Number(undefined): not a finite number
NotANumber == <<>>
IsFinite(x) == x # NotANumber
\* Math.round: the nearest integer, halves upward
MathRound(x) == R(RFloor(RAdd(x, Q(1, 2))))
RMax(a, b) == IF RLt(a, b) THEN b ELSE a
RMin(a, b) == IF RLt(a, b) THEN a ELSE b
\* Math.sqrt on the squares of the rationals the inputs produce
SqrtOfSquare(x) ==
  CHOOSE r \in {Q(n, d) : n \in 0..4, d \in 1..4} : RMul(r, r) = x

\* String.toLowerCase on the names the oracle answers with
ToLowerCase(name) ==
  CASE name = "Root" -> "root"
    [] name = "Bone_T1" -> "bone_t1"
    [] OTHER -> name

\* the characters of the bone names that occur, one string per character
Characters(name) ==
   CASE name = "root" -> <<"r", "o", "o", "t">>
    [] name = "bone_t1" -> <<"b", "o", "n", "e", "_", "t", "1">>
    [] name = "Root" -> <<"R", "o", "o", "t">>
    [] name = "Bone_T1" -> <<"B", "o", "n", "e", "_", "T", "1">>
    [] name = "tail" -> <<"t", "a", "i", "l">>
    [] name = "spine" -> <<"s", "p", "i", "n", "e">>
    [] name = "hip" -> <<"h", "i", "p">>
    [] name = "Hips" -> <<"H", "i", "p", "s">>
    [] name = "pelvis" -> <<"p", "e", "l", "v", "i", "s">>
    [] name = "left_hip" -> <<"l", "e", "f", "t", "_", "h", "i", "p">>
    [] name = "Left  Hip" -> <<"L", "e", "f", "t", " ", " ", "H", "i", "p">>
    [] name = "hip_l" -> <<"h", "i", "p", "_", "l">>
    [] name = "tail_root" -> <<"t", "a", "i", "l", "_", "r", "o", "o", "t">>

UpperCaseLetters == <<"A", "B", "C", "D", "E", "F", "G", "H", "I", "J", "K", "L", "M", "N", "O", "P", "Q", "R", "S", "T", "U", "V", "W", "X", "Y", "Z">>
LowerCaseLetters == <<"a", "b", "c", "d", "e", "f", "g", "h", "i", "j", "k", "l", "m", "n", "o", "p", "q", "r", "s", "t", "u", "v", "w", "x", "y", "z">>

\* String.prototype.toLowerCase on one character
LowerCaseOf(c) ==
  IF \E i \in DOMAIN UpperCaseLetters : UpperCaseLetters[i] = c
  THEN LowerCaseLetters[CHOOSE i \in DOMAIN UpperCaseLetters : UpperCaseLetters[i] = c]
  ELSE c

\* value.toLowerCase().replace(/\s+/g, '_'): every run of blanks becomes one
\* underscore
normalizeName(name) ==
  LET chars == Characters(name)
      kept == {i \in DOMAIN chars : ~(chars[i] = " " /\ i > 1 /\ chars[i - 1] = " ")}
      nth(k) == CHOOSE i \in kept : Cardinality({j \in kept : j <= i}) = k
  IN  [k \in 1..Cardinality(kept) |->
         IF chars[nth(k)] = " " THEN "_" ELSE LowerCaseOf(chars[nth(k)])]

\* /(a|b|...)$/.test(chars): the characters end with one of the words
EndsWithAny(chars, words) ==
  \E word \in words :
     /\ Len(word) <= Len(chars)
     /\ \A i \in DOMAIN word : chars[Len(chars) - Len(word) + i] = word[i]

PelvisWords == {<<"p", "e", "l", "v", "i", "s">>, <<"h", "i", "p", "s">>, <<"h", "i", "p">>}
SideSuffixes == {<<"l", "e", "f", "t">>, <<"r", "i", "g", "h", "t">>, <<"_", "l">>, <<"_", "r">>, <<".", "l">>, <<".", "r">>, <<"_", "l", "e", "f", "t">>, <<"_", "r", "i", "g", "h", "t">>}

\* /(pelvis|hips|hip)$/ and then no /(left|right|_l|_r|\.l|\.r|_left|_right)$/,
\* both on the normalised name
isCentralPelvisName(name) ==
  /\ EndsWithAny(normalizeName(name), PelvisWords)
  /\ ~EndsWithAny(normalizeName(name), SideSuffixes)

lockRootMotion(tracks, bones) ==
  LET lockedIds == {bones[i].id : i \in {j \in DOMAIN bones :
                      bones[j].parentId = Null \/ isCentralPelvisName(bones[j].name)}}
  IN  IF lockedIds = {} THEN tracks
      ELSE SelectSeq(tracks, LAMBDA t : ~(t.property = "position" /\ t.boneId \in lockedIds))

\* new Map(bones.map(b => [b.name.toLowerCase(), b.id])).get(name): the last
\* bone of that name, Null for undefined
BoneIdOfName(bones, name) ==
  LET hits == {i \in DOMAIN bones : ToLowerCase(bones[i].name) = name}
  IN  IF hits = {} THEN Null
      ELSE bones[CHOOSE i \in hits : \A j \in hits : j <= i].id

\* const frame = Math.max(0, Math.round(Number(kf.frame)))
OracleFrame(kf) == RMax(R(0), MathRound(kf.frame))

NormalizedRotation(q) ==
  LET len == SqrtOfSquare(RAdd(RAdd(RMul(q[1], q[1]), RMul(q[2], q[2])),
                               RAdd(RMul(q[3], q[3]), RMul(q[4], q[4]))))
  IN  IF RLt(R(0), len) THEN [i \in 1..4 |-> RDiv(q[i], len)] ELSE IdentityQuat

\* [x, y, z, w].every(Number.isFinite)
AllFinite(value) == \A i \in DOMAIN value : IsFinite(value[i])

\* the keyframes one loop of convertToAnimationClip collects for a property:
\* an entry of the wrong shape, with a frame or a component that is not
\* finite is passed over
RECURSIVE OracleKeyframes(_, _)
OracleKeyframes(kfs, property) ==
  IF kfs = <<>> THEN <<>>
  ELSE LET kf == Head(kfs)
           rest == OracleKeyframes(Tail(kfs), property)
       IN  IF property = "rotation" /\ Len(kf.rotation) = 4
              /\ IsFinite(kf.frame) /\ AllFinite(kf.rotation)
           THEN <<[frame |-> OracleFrame(kf), value |-> NormalizedRotation(kf.rotation),
                   interpolation |-> "linear"]>> \o rest
           ELSE IF property = "position" /\ Len(kf.position) = 3
              /\ IsFinite(kf.frame) /\ AllFinite(kf.position)
           THEN <<[frame |-> OracleFrame(kf), value |-> kf.position,
                   interpolation |-> "linear"]>> \o rest
           ELSE rest

ensureFrameZero(keyframes, value) ==
  IF \E i \in DOMAIN keyframes : keyframes[i].frame = R(0) THEN keyframes
  ELSE Append(keyframes, [frame |-> R(0), value |-> value, interpolation |-> "linear"])

\* the tracks of one entry of data.bones: rotation first, then position
OracleBoneTracks(boneAnim, bones) ==
  LET boneId == BoneIdOfName(bones, ToLowerCase(boneAnim.boneName))
      restBone == bones[BoneIndex(bones, boneId)]
      track(property, restValue) ==
        LET keyframes == OracleKeyframes(boneAnim.keyframes, property)
        IN  IF keyframes = <<>> THEN <<>>
            ELSE <<[boneId |-> boneId, property |-> property,
                    keyframes |-> SortByFrame(ensureFrameZero(keyframes, restValue))]>>
  IN  IF boneId = Null THEN <<>>
      ELSE track("rotation", restBone.rotation) \o track("position", restBone.position)

RECURSIVE OracleTracks(_, _)
OracleTracks(boneAnims, bones) ==
  IF boneAnims = <<>> THEN <<>>
  ELSE OracleBoneTracks(Head(boneAnims), bones) \o OracleTracks(Tail(boneAnims), bones)

\* maxFrame: the largest finite frame of a keyframe of the right shape of a
\* bone that exists; it is raised before the components are looked at
OracleMaxFrame(boneAnims, bones) ==
  LET counted(kf) == /\ Len(kf.rotation) = 4 \/ Len(kf.position) = 3
                     /\ IsFinite(kf.frame)
      frames == UNION {{OracleFrame(boneAnims[b].keyframes[k]) :
                          k \in {j \in DOMAIN boneAnims[b].keyframes :
                                   counted(boneAnims[b].keyframes[j])}} :
                         b \in {a \in DOMAIN boneAnims :
                                  BoneIdOfName(bones, ToLowerCase(boneAnims[a].boneName))
                                    # Null}} \cup {R(0)}
  IN  CHOOSE m \in frames : \A f \in frames : RLe(f, m)

\* convertToAnimationClip: the clip in a one-element sequence, <<>> for null
convertToAnimationClip(data, bones, id) ==
  LET fps == IF IsFinite(data.fps) THEN RMin(R(120), RMax(R(1), data.fps)) ELSE R(30)
      frameCount == IF IsFinite(data.frameCount)
                    THEN RMax(R(2), MathRound(data.frameCount))
                    ELSE R(60)
      tracks == OracleTracks(data.bones, bones)
      maxFrame == OracleMaxFrame(data.bones, bones)
  IN  IF tracks = <<>> THEN <<>>
      ELSE <<[id |-> id, name |-> "AI Generated Animation", fps |-> fps,
              frameCount |-> IF RLt(frameCount, RAdd(maxFrame, R(1)))
                             THEN RAdd(maxFrame, R(1)) ELSE frameCount,
              tracks |-> lockRootMotion(tracks, bones)]>>

\* parseAnimationResponse without a prompt (applyMotionFallback returns at
\* once); a response that holds no JSON object makes the parser throw
parseAnimationResponse(data, bones, id) ==
  LET animation == IF ~data.json THEN <<>>
                   ELSE convertToAnimationClip(data, bones, id)
  IN  [success |-> animation # <<>>, animation |-> animation]

\* a dialog that writes the result into the store without looking at success
applyAnimationResultUnchecked(w, result) ==
  Set(w, [w.store EXCEPT
            !.animations = IF result.animation # <<>>
                           THEN Append(@, result.animation[1]) ELSE @,
            !.currentAnimationId = IF result.animation # <<>>
                                   THEN result.animation[1].id ELSE Null,
            !.isDirty = TRUE])

\* AIAnimationDialog.applyAnimationResult
applyAnimationResult(w, result) ==
  IF result.success
  THEN Set(w, [w.store EXCEPT !.animations = Append(@, result.animation[1]),
                              !.currentAnimationId = result.animation[1].id,
                              !.isDirty = TRUE])
  ELSE [w EXCEPT !.obs.rejected = TRUE]

\* AIAnimationDialog.handleProcessManual with a prompt and a pasted response
handleProcessManual(w, data, id) ==
  IF Len(w.store.skeleton) = 0 THEN [w EXCEPT !.obs.rejected = TRUE]
  ELSE applyAnimationResult(w, parseAnimationResponse(data, w.store.skeleton, id))

\* ------------------------------------- AnimationController: evaluation
\* interpolateValue: <<>> is null
interpolateValue(keyframes, frame) ==
  IF keyframes = <<>> THEN <<>>
  ELSE
    LET sortedKf == SortByFrame(keyframes)
        before == {i \in DOMAIN sortedKf : RLe(sortedKf[i].frame, frame)}
        after == {i \in DOMAIN sortedKf : RLe(frame, sortedKf[i].frame)}
        \* the last keyframe at or before frame, the first at or after it
        prevKf == sortedKf[CHOOSE i \in before : \A j \in before : j <= i]
        nextKf == sortedKf[CHOOSE i \in after : \A j \in after : i <= j]
        t == RDiv(RSub(frame, prevKf.frame), RSub(nextKf.frame, prevKf.frame))
        smoothT == RMul(RMul(t, t), RSub(R(3), RMul(R(2), t)))
        mix(u) == [i \in DOMAIN prevKf.value |->
                     RAdd(prevKf.value[i],
                          RMul(RSub(nextKf.value[i], prevKf.value[i]), u))]
    IN  IF before # {} /\ prevKf.frame = frame THEN prevKf.value
        ELSE IF before = {} THEN nextKf.value
        ELSE IF after = {} THEN prevKf.value
        ELSE CASE prevKf.interpolation = "step" -> prevKf.value
               [] prevKf.interpolation = "linear" -> mix(t)
               [] prevKf.interpolation = "bezier" -> mix(smoothT)
               [] OTHER -> prevKf.value

\* the while loop of applyForwardKinematics: bones is the array the pass was
\* called with, every parent transform is read from it
RECURSIVE FKQueue(_, _, _, _)
RECURSIVE FKChildren(_, _, _, _, _)
FKChildren(w, bone, children, bones, restPose) ==
  IF children = <<>> THEN w
  ELSE LET child == Head(children)
           currentBone == bones[BoneIndex(bones, bone.id)]
           newChildPos == VAdd(currentBone.position,
                               ApplyQuaternion(restPose[child.id].localOffset,
                                               currentBone.rotation))
           w1 == IF bone.id \in DOMAIN restPose /\ child.id \in DOMAIN restPose
                 THEN updateBone(w, child.id, "position", newChildPos)
                 ELSE w
       IN  FKChildren(w1, bone, Tail(children), bones, restPose)

FKQueue(w, queue, bones, restPose) ==
  IF queue = <<>> THEN w
  ELSE LET bone == Head(queue)
           children == SelectSeq(bones, LAMBDA b : b.parentId = bone.id)
       IN  FKQueue(FKChildren(w, bone, children, bones, restPose),
                   Tail(queue) \o children, bones, restPose)

applyForwardKinematics(w, bones, restPose) ==
  FKQueue([w EXCEPT !.obs.fkPasses = @ + 1],
          SelectSeq(bones, LAMBDA b : b.parentId = Null), bones, restPose)

\* the first pass of applyAnimation: the bones are looked up in the skeleton
\* read when applyAnimation started
RECURSIVE ApplyTracks(_, _, _, _)
ApplyTracks(w, tracks, bones, frame) ==
  IF tracks = <<>> THEN w
  ELSE LET track == Head(tracks)
           value == interpolateValue(track.keyframes, frame)
           w1 == IF BoneIndex(bones, track.boneId) = 0 \/ value = <<>> THEN w
                 ELSE updateBone(w, track.boneId, track.property, value)
       IN  ApplyTracks(w1, Tail(tracks), bones, frame)

applyAnimation(w, frame) ==
  LET s == w.store
      a == AnimationIndex(s.animations, s.currentAnimationId)
  IN  IF a = 0 THEN w
      ELSE IF s.animations[a].tracks = <<>> THEN w
      ELSE LET tracks == s.animations[a].tracks
               w1 == IF w.ac.hasInitialized THEN w ELSE initializeRestPose(w)
               w2 == ApplyTracks(w1, tracks, s.skeleton, frame)
               animatedBoneIds ==
                 {tracks[i].boneId : i \in {j \in DOMAIN tracks :
                    /\ tracks[j].property = "rotation"
                    /\ BoneIndex(s.skeleton, tracks[j].boneId) # 0
                    /\ tracks[j].keyframes # <<>>}}
           IN  IF animatedBoneIds # {} /\ DOMAIN w2.ac.restPose # {}
               THEN applyForwardKinematics(w2, w2.store.skeleton, w2.ac.restPose)
               ELSE w2

\* a % b of JavaScript for a >= 0 and b > 0
RMod(a, b) == RSub(a, RMul(b, R(RFloor(RDiv(a, b)))))

\* an end of clip that does not clamp
EndOfClipFrameUnclamped(newFrame, frameCount, loop) ==
  IF loop THEN RMod(newFrame, frameCount) ELSE newFrame

\* the frame of a playing clip once newFrame >= frameCount
EndOfClipFrame(newFrame, frameCount, loop) ==
  IF loop THEN RMod(newFrame, frameCount) ELSE frameCount

\* the frame callback of AnimationController; delta is in seconds
useFrame(w, delta) ==
  LET s == w.store
      timeline == s.timeline
      a == AnimationIndex(s.animations, s.currentAnimationId)
      w0 == [w EXCEPT !.ac.isPlayingRef = timeline.isPlaying,
                      !.obs.frameDelta = RMul(delta, timeline.fps)]
  IN  IF a = 0 THEN w0
      ELSE IF timeline.isPlaying
      THEN LET frameCount == s.animations[a].frameCount
               advanced == RAdd(timeline.currentFrame, RMul(delta, timeline.fps))
               ends == RLe(frameCount, advanced)
               newFrame == IF ends
                           THEN EndOfClipFrame(advanced, frameCount, timeline.loop)
                           ELSE advanced
               w1 == IF ends /\ ~timeline.loop
                     THEN updateTimeline(w0, [f \in {"isPlaying"} |-> FALSE])
                     ELSE w0
               w2 == updateTimeline(w1, [f \in {"currentFrame"} |-> newFrame])
           IN  [applyAnimation(w2, newFrame) EXCEPT !.ac.lastFrame = newFrame]
      ELSE IF RLt(<<1, 100>>, RAbs(RSub(timeline.currentFrame, w.ac.lastFrame)))
      THEN [applyAnimation(w0, timeline.currentFrame) EXCEPT
              !.ac.lastFrame = timeline.currentFrame]
      ELSE w0

\* createRestPoseSnapshot
createRestPoseSnapshot(bones) ==
  [set |-> TRUE,
   pose |-> [id \in BoneIds(bones) |->
               LET b == bones[CHOOSE i \in DOMAIN bones :
                                bones[i].id = id /\ \A j \in DOMAIN bones :
                                                      bones[j].id = id => j <= i]
               IN  [position |-> b.position, rotation |-> b.rotation, scale |-> b.scale]]]

\* loadProject(data, filePath)
loadProject(w, data) ==
  Set(w, [w.store EXCEPT
    !.modelPath = data.modelPath,
    !.skeleton = data.skeleton,
    !.weightMap = data.weightMap,
    !.animations = data.animations,
    !.currentAnimationId = IF Len(data.animations) > 0 THEN data.animations[1].id ELSE Null,
    !.isDirty = FALSE,
    !.history = <<>>,
    !.historyIndex = -1,
    !.restPoseSnapshot = createRestPoseSnapshot(data.skeleton)])

\* ------------------------------------------------------------- inputs
\* an id that no bone of the skeleton ever carries
GhostId == MaxIds + 1
PreviewPositions == {V3(1, 0, 0)}
\* `bone_${Date.now()}`
ClockNames == {"bone_t1"}
EditorModes == {"select", "bone", "weight-paint", "animate"}

Init ==
  /\ store = InitialStore
  /\ ac = InitialAC
  /\ sb = InitialSB
  /\ loadedModel = FALSE
  /\ nextId = 1
  /\ obs = NoObs
  /\ dialogs = InitialDialogs

\* room for n more history entries (pushHistory drops the redo entries first)
CanEdit(n) == store.historyIndex + 1 + n <= MaxEdits

\* ------------------------------------------------- actions: the skeleton
\* store.addBone(position, parentId) with any parent argument
AddBoneCall ==
  /\ nextId <= MaxIds /\ CanEdit(1)
  /\ \E position \in PreviewPositions, name \in ClockNames,
        parentId \in BoneIds(store.skeleton) \cup {Null, GhostId} :
       Commit([addBone(World, nextId, position, parentId, name) EXCEPT
                 !.obs.op = "addBone", !.obs.id = nextId, !.obs.parentId = parentId])
  /\ nextId' = nextId + 1
  /\ UNCHANGED loadedModel

\* store.setBoneParent(boneId, parentId) with any arguments
SetBoneParentCall ==
  /\ CanEdit(1)
  /\ \E boneId \in BoneIds(store.skeleton),
        parentId \in BoneIds(store.skeleton) \cup {Null, GhostId} :
       Commit([setBoneParent(World, boneId, parentId) EXCEPT
                 !.obs.op = "setBoneParent", !.obs.id = boneId,
                 !.obs.parentId = parentId])
  /\ UNCHANGED <<loadedModel, nextId>>

\* store.deleteBone(id)
DeleteBoneCall ==
  /\ CanEdit(1)
  /\ \E id \in BoneIds(store.skeleton) \cup {GhostId} :
       Commit([deleteBone(World, id) EXCEPT !.obs.op = "deleteBone", !.obs.id = id])
  /\ UNCHANGED <<loadedModel, nextId>>

\* a bone of the hierarchy tree is dropped on another one
HandleDrop ==
  /\ CanEdit(2)
  /\ \E draggedBoneId \in ShownInTree(store.skeleton),
        targetId \in ShownInTree(store.skeleton) :
       Commit([handleDrop(World, draggedBoneId, targetId) EXCEPT
                 !.obs.op = "handleDrop", !.obs.id = draggedBoneId,
                 !.obs.parentId = targetId])
  /\ UNCHANGED <<loadedModel, nextId>>

\* a bone of the hierarchy tree is dropped on the empty part of the panel
HandleDropOnRoot ==
  /\ CanEdit(2)
  /\ \E draggedBoneId \in ShownInTree(store.skeleton) :
       Commit([handleDropOnRoot(World, draggedBoneId) EXCEPT
                 !.obs.op = "handleDropOnRoot", !.obs.id = draggedBoneId])
  /\ UNCHANGED <<loadedModel, nextId>>

\* the parent select of the properties panel of the one selected bone
HandleParentChange ==
  /\ CanEdit(2)
  /\ store.selection.type = "bone" /\ Len(store.selection.ids) = 1
  /\ LET boneId == store.selection.ids[1]
     IN  /\ boneId \in BoneIds(store.skeleton)
         /\ DescendantWalkEnds(store.skeleton, boneId)
         /\ \E newParentId \in availableParents(store.skeleton, boneId) \cup {Null} :
              Commit([handleParentChange(World, boneId, newParentId) EXCEPT
                        !.obs.op = "handleParentChange", !.obs.id = boneId,
                        !.obs.parentId = newParentId])
  /\ UNCHANGED <<loadedModel, nextId>>

HandleUnparent ==
  /\ CanEdit(Len(store.selection.ids))
  /\ store.selection.type = "bone"
  /\ Commit([handleUnparent(World) EXCEPT !.obs.op = "handleUnparent"])
  /\ UNCHANGED <<loadedModel, nextId>>

HandleDeleteSelected ==
  /\ CanEdit(Len(store.selection.ids))
  /\ store.selection.type = "bone"
  /\ Commit([handleDeleteSelected(World) EXCEPT !.obs.op = "handleDeleteSelected"])
  /\ UNCHANGED <<loadedModel, nextId>>

\* a click in bone mode places a bone (BoneCreator is rendered in bone mode)
BoneCreate ==
  /\ Mounted(store) /\ store.mode = "bone"
  /\ nextId <= MaxIds /\ CanEdit(1)
  /\ \E previewPosition \in PreviewPositions, name \in ClockNames :
       Commit([BoneCreatorClick(World, nextId, previewPosition, name) EXCEPT
                 !.obs.op = "boneCreate", !.obs.id = nextId])
  /\ nextId' = nextId + 1
  /\ UNCHANGED loadedModel

\* a click on a bone of the tree selects it, a click on nothing clears
Select ==
  /\ \E selection \in {[type |-> "bone", ids |-> <<id>>] : id \in BoneIds(store.skeleton)}
                      \cup {[type |-> "none", ids |-> <<>>]} :
       Commit([setSelection(World, selection) EXCEPT !.obs.op = "select"])
  /\ UNCHANGED <<loadedModel, nextId>>

Undo ==
  /\ Commit([undo(World) EXCEPT !.obs.op = "undo"])
  /\ UNCHANGED <<loadedModel, nextId>>

Redo ==
  /\ Commit([redo(World) EXCEPT !.obs.op = "redo"])
  /\ UNCHANGED <<loadedModel, nextId>>

\* ------------------------------------------- actions: project and mode
\* a model file is imported; the Viewport mounts when it was not shown
ImportModel ==
  /\ LET w == setModelPath(World, "model.glb")
     IN  Commit([(IF Mounted(store) THEN w ELSE MountViewport(w)) EXCEPT
                   !.obs.op = "importModel"])
  /\ UNCHANGED <<loadedModel, nextId>>

\* ModelLoader parsed the file and published the displayed model
ModelDisplayed ==
  /\ Mounted(store) /\ ~loadedModel
  /\ loadedModel' = TRUE
  /\ obs' = [NoObs EXCEPT !.op = "modelDisplayed"]
  /\ UNCHANGED <<store, ac, sb, nextId, dialogs>>

NewProject ==
  /\ LET w == newProject(World)
     IN  Commit([(IF Mounted(store) THEN UnmountViewport(w) ELSE w) EXCEPT
                   !.obs.op = "newProject"])
  /\ UNCHANGED <<loadedModel, nextId>>

\* a mode button of the toolbar
SetMode ==
  /\ \E mode \in EditorModes :
       Commit([setMode(World, mode) EXCEPT !.obs.op = "setMode"])
  /\ UNCHANGED <<loadedModel, nextId>>

\* ------------------------------------------- specification: the skeleton
\* the editor with a model imported and the bone tool chosen
FreshWorld ==
  [store |-> InitialStore, ac |-> InitialAC, sb |-> InitialSB, obs |-> NoObs,
   loadedModel |-> FALSE]
BoneModeWorld == setMode(MountViewport(setModelPath(FreshWorld, "model.glb")), "bone")

InitSkeleton ==
  /\ store = BoneModeWorld.store
  /\ ac = BoneModeWorld.ac
  /\ sb = BoneModeWorld.sb
  /\ loadedModel = FALSE
  /\ nextId = 1
  /\ obs = NoObs
  /\ dialogs = InitialDialogs

NextSkeleton ==
  \/ AddBoneCall
  \/ SetBoneParentCall
  \/ DeleteBoneCall
  \/ HandleDrop
  \/ HandleParentChange
  \/ HandleUnparent
  \/ HandleDeleteSelected
  \/ BoneCreate
  \/ Select

SpecSkeleton == InitSkeleton /\ [][NextSkeleton]_vars

\* ------------------------------------------------- claims on the skeleton
ParentOf(bones, id) == bones[BoneIndex(bones, id)].parentId

\* no bone is reached from itself by following child links
Acyclic(bones) == \A id \in BoneIds(bones) : id \notin Below(bones, {id}, Len(bones))

\* C1: on an acyclic skeleton a setBoneParent call whose parent argument is a
\* descendant of the bone leaves the bone's parentId unchanged, and the parent
\* graph is still acyclic after the call.
C1_DescendantReparentRejected ==
  [][(/\ obs'.op = "setBoneParent"
      /\ Acyclic(store.skeleton)
      /\ obs'.parentId \in Below(store.skeleton, {obs'.id}, Len(store.skeleton)))
     => (/\ ParentOf(store'.skeleton, obs'.id) = ParentOf(store.skeleton, obs'.id)
         /\ Acyclic(store'.skeleton))]_vars

\* C2: deleteBone(id) of an existing bone removes exactly that bone, gives every
\* bone whose parent was the deleted bone the deleted bone's own parentId, and
\* leaves no bone whose parentId is the deleted id.
C2_DeleteReparentsChildren ==
  [][(obs'.op = "deleteBone" /\ obs'.id \in BoneIds(store.skeleton))
     => LET old == store.skeleton
            new == store'.skeleton
            gone == old[BoneIndex(old, obs'.id)]
        IN  /\ BoneIds(new) = BoneIds(old) \ {obs'.id}
            /\ Len(new) = Len(old) - 1
            /\ \A id \in BoneIds(new) :
                 ParentOf(new, id) = IF ParentOf(old, id) = obs'.id
                                     THEN gone.parentId
                                     ELSE ParentOf(old, id)
            /\ \A id \in BoneIds(new) : ParentOf(new, id) # obs'.id]_vars

\* C3: in every reachable state each bone's parentId is null or the id of a
\* different bone of the skeleton (addBone and setBoneParent leave no self
\* reference and no reference to a bone that does not exist).
C3_ParentRefsValid ==
  \A i \in DOMAIN store.skeleton :
     LET b == store.skeleton[i]
     IN  b.parentId = Null
         \/ (b.parentId # b.id /\ b.parentId \in BoneIds(store.skeleton))

\* ------------------------------------------------- actions: keyframes
\* the store calls key rotations; position tracks come from the oracle
KeyframeProperties == {"rotation"}
KeyframeFrames == {R(f) : f \in 0..(MaxKeyframes - 1)}
KeyframeValue(property) ==
  IF property = "rotation" THEN Quat(0, 0, 1, 0) ELSE V3(0, 1, 0)

\* what the oracle may answer: frames that are negative, fractional or repeated
OracleFrames == {R(-1), R(0), Q(3, 2)}
OracleKeyframeInputs ==
  {[frame |-> f, rotation |-> Quat(0, 0, 2, 0), position |-> <<>>] : f \in OracleFrames}
  \cup {[frame |-> f, rotation |-> <<>>, position |-> V3(0, 1, 0)] : f \in OracleFrames}
OracleBoneNames == {"Root", "bone_t1", "tail"}
OracleResponses ==
  {[json |-> FALSE]}
  \cup {[json |-> TRUE, fps |-> NotANumber, frameCount |-> fc,
         bones |-> <<[boneName |-> n, keyframes |-> kfs]>>] :
          fc \in {NotANumber}, n \in OracleBoneNames,
          kfs \in {<<a>> : a \in OracleKeyframeInputs}
                  \cup {<<a, b>> : a \in OracleKeyframeInputs, b \in OracleKeyframeInputs}}

AddAnimation ==
  /\ nextId <= MaxIds
  /\ Commit([addAnimation(World, nextId, "animation") EXCEPT
               !.obs.op = "addAnimation", !.obs.id = nextId])
  /\ nextId' = nextId + 1
  /\ UNCHANGED loadedModel

\* store.addKeyframe(animationId, boneId, property, frame, value)
AddKeyframeCall ==
  /\ CanEdit(1)
  /\ store.currentAnimationId # Null
  /\ \E boneId \in BoneIds(store.skeleton), property \in KeyframeProperties,
        frame \in KeyframeFrames :
       Commit([addKeyframe(World, store.currentAnimationId, boneId, property, frame,
                           KeyframeValue(property), "linear") EXCEPT
                 !.obs.op = "addKeyframe", !.obs.id = boneId])
  /\ UNCHANGED <<loadedModel, nextId>>

\* store.updateKeyframe(animationId, boneId, property, frame, updates) with
\* updates = {frame: to}
UpdateKeyframeCall ==
  /\ store.currentAnimationId # Null
  /\ \E boneId \in BoneIds(store.skeleton), property \in KeyframeProperties,
        frame \in KeyframeFrames,
        updates \in {[f \in {"frame"} |-> to] : to \in KeyframeFrames} :
       Commit([updateKeyframe(World, store.currentAnimationId, boneId, property, frame,
                              updates) EXCEPT
                 !.obs.op = "updateKeyframe", !.obs.id = boneId])
  /\ UNCHANGED <<loadedModel, nextId>>

\* store.deleteKeyframe(animationId, boneId, property, frame)
DeleteKeyframeCall ==
  /\ CanEdit(1)
  /\ store.currentAnimationId # Null
  /\ \E boneId \in BoneIds(store.skeleton), property \in KeyframeProperties,
        frame \in KeyframeFrames :
       Commit([deleteKeyframe(World, store.currentAnimationId, boneId, property, frame)
                 EXCEPT !.obs.op = "deleteKeyframe", !.obs.id = boneId])
  /\ UNCHANGED <<loadedModel, nextId>>

\* the user pastes the oracle's answer into the dialog and presses Process
ProcessManualResponse ==
  /\ nextId <= MaxIds
  /\ \E data \in OracleResponses :
       Commit([handleProcessManual(World, data, nextId) EXCEPT
                 !.obs.op = "processManual", !.obs.id = nextId])
  /\ nextId' = nextId + 1
  /\ UNCHANGED loadedModel

\* ------------------------------------------ specification: the keyframes
\* a rig of a root bone and one child, the animate tool chosen
RiggedWorld ==
  setMode(addBone(addBone(BoneModeWorld, 1, V3(0, 0, 0), Null, "root"),
                  2, V3(1, 0, 0), 1, "bone_t1"), "animate")

InitKeyframes ==
  /\ store = RiggedWorld.store
  /\ ac = RiggedWorld.ac
  /\ sb = RiggedWorld.sb
  /\ loadedModel = FALSE
  /\ nextId = 3
  /\ obs = NoObs
  /\ dialogs = InitialDialogs

NextKeyframes ==
  \/ AddAnimation
  \/ AddKeyframeCall
  \/ UpdateKeyframeCall
  \/ DeleteKeyframeCall
  \/ ProcessManualResponse

SpecKeyframes == InitKeyframes /\ [][NextKeyframes]_vars

\* ------------------------------------------------ claims on the keyframes
\* C4: in every reachable state, in each track of each clip the keyframe
\* frames are strictly increasing along the stored order (hence pairwise
\* distinct), after addKeyframe, updateKeyframe, deleteKeyframe and for clips
\* built from an oracle response.
C4_FramesStrictlyIncreasing ==
  \A a \in DOMAIN store.animations :
    \A t \in DOMAIN store.animations[a].tracks :
      LET keyframes == store.animations[a].tracks[t].keyframes
      IN  \A k \in 1..(Len(keyframes) - 1) :
            RLt(keyframes[k].frame, keyframes[k + 1].frame)

\* the frame callback of SkeletonBinding: updateBoneTransforms writes the
\* transforms of the store's bones into the bones of the skinned meshes
SBUseFrame(w) ==
  IF ~w.sb.isActive \/ ~w.sb.built \/ Len(w.store.skeleton) = 0 THEN w
  ELSE [w EXCEPT !.sb.posed = w.store.skeleton]

\* one frame of the render loop: the frame callbacks run in the order the
\* components subscribed, SkeletonBinding (mounted first in ViewportContent)
\* before AnimationController; the scene is drawn after the last callback
RenderFrame(w, delta) == useFrame(SBUseFrame(w), delta)

\* -------------------------------------------------- actions: playback
\* seconds between two frame callbacks: one or two frames of a 30 fps timeline
FrameTimes == {Q(1, 30), Q(1, 15)}

\* playback is followed while every bone stays within MaxReach of the origin
WithinReach ==
  \A i \in DOMAIN store.skeleton : \A k \in 1..3 :
     RLe(RAbs(store.skeleton[i].position[k]), R(MaxReach))

\* one frame of the render loop
Tick ==
  /\ Mounted(store) /\ WithinReach
  /\ \E delta \in FrameTimes :
       Commit([RenderFrame(World, delta) EXCEPT !.obs.op = "tick"])
  /\ UNCHANGED <<loadedModel, nextId>>

\* the menu's play/pause (useElectronEvents onPlayPause): any mode
OnPlayPause ==
  /\ Commit([updateTimeline(World, [f \in {"isPlaying"} |-> ~store.timeline.isPlaying])
               EXCEPT !.obs.op = "onPlayPause"])
  /\ UNCHANGED <<loadedModel, nextId>>

\* Timeline.handlePlayPause
HandlePlayPause ==
  /\ store.mode = "animate"
  /\ Commit([updateTimeline(World, [f \in {"isPlaying"} |-> ~store.timeline.isPlaying])
               EXCEPT !.obs.op = "handlePlayPause"])
  /\ UNCHANGED <<loadedModel, nextId>>

\* Timeline.handleStop
HandleStop ==
  /\ store.mode = "animate"
  /\ Commit([updateTimeline(World, [f \in {"isPlaying", "currentFrame"} |->
                                      IF f = "isPlaying" THEN FALSE ELSE R(0)])
               EXCEPT !.obs.op = "handleStop"])
  /\ UNCHANGED <<loadedModel, nextId>>

\* the frame input of the timeline: parseInt(value) || 0, not clamped
ScrubFrames == {R(0), R(1), R(MaxFrames + 1)}
Scrub ==
  /\ store.mode = "animate"
  /\ AnimationIndex(store.animations, store.currentAnimationId) # 0
  /\ \E frame \in ScrubFrames :
       Commit([updateTimeline(World, [f \in {"currentFrame"} |-> frame])
                 EXCEPT !.obs.op = "scrub"])
  /\ UNCHANGED <<loadedModel, nextId>>

ToggleLoop ==
  /\ Commit([updateTimeline(World, [f \in {"loop"} |-> ~store.timeline.loop])
               EXCEPT !.obs.op = "toggleLoop"])
  /\ UNCHANGED <<loadedModel, nextId>>

\* the clip select of the timeline
SetCurrentAnimation ==
  /\ \E id \in {store.animations[i].id : i \in DOMAIN store.animations} :
       Commit([setCurrentAnimation(World, id) EXCEPT
                 !.obs.op = "setCurrentAnimation", !.obs.id = id])
  /\ UNCHANGED <<loadedModel, nextId>>

\* ------------------------------------------- specification: playback
\* a saved project: the chain root -> A -> B along x, a clip that turns the
\* root half a turn about z at frame 1, and a clip without tracks
ProjectBone(id, parentId, x) ==
  [id |-> id, name |-> IF parentId = Null THEN "root" ELSE "bone_t1",
   parentId |-> parentId, position |-> V3(x, 0, 0),
   rotation |-> IdentityQuat, scale |-> V3(1, 1, 1)]
ChainProject ==
  [modelPath |-> "model.glb",
   skeleton |-> <<ProjectBone(11, Null, 0), ProjectBone(12, 11, 1), ProjectBone(13, 12, 2)>>,
   weightMap |-> <<>>,
   animations |->
     <<[id |-> 14, name |-> "turn", fps |-> R(30), frameCount |-> R(MaxFrames),
        tracks |-> <<[boneId |-> 11, property |-> "rotation",
                      keyframes |-> <<[frame |-> R(0), value |-> IdentityQuat,
                                       interpolation |-> "linear"],
                                      [frame |-> R(1), value |-> Quat(0, 0, 1, 0),
                                       interpolation |-> "linear"]>>]>>],
       [id |-> 15, name |-> "idle", fps |-> R(30), frameCount |-> R(MaxFrames),
        tracks |-> <<>>]>>]

\* the project opened (the Viewport mounts), the animate tool chosen
PlaybackWorld == setMode(MountViewport(loadProject(FreshWorld, ChainProject)), "animate")

InitPlayback ==
  /\ store = PlaybackWorld.store
  /\ ac = PlaybackWorld.ac
  /\ sb = PlaybackWorld.sb
  /\ loadedModel = FALSE
  /\ nextId = 1
  /\ obs = NoObs
  /\ dialogs = InitialDialogs

NextPlayback ==
  \/ Tick
  \/ HandlePlayPause
  \/ HandleStop
  \/ Scrub
  \/ ToggleLoop
  \/ SetCurrentAnimation

SpecPlayback == InitPlayback /\ [][NextPlayback]_vars

\* ------------------------------------------------- claims on playback
HasCurrentClip(s) == AnimationIndex(s.animations, s.currentAnimationId) # 0
CurrentClip(s) == s.animations[AnimationIndex(s.animations, s.currentAnimationId)]

\* C5: a frame callback while playing with loop disabled on which currentFrame
\* plus the frame delta reaches or exceeds frameCount sets currentFrame to
\* frameCount and stops playback; after a non-loop playing callback
\* currentFrame is at most frameCount; a callback while stopped leaves
\* currentFrame and isPlaying as they were.
C5_NonLoopPlaybackClampsAndStops ==
  [][obs'.op = "tick" =>
       /\ (HasCurrentClip(store) /\ store.timeline.isPlaying /\ ~store.timeline.loop) =>
            LET frameCount == CurrentClip(store).frameCount
                reached == RAdd(store.timeline.currentFrame, obs'.frameDelta)
            IN  /\ RLe(frameCount, reached) =>
                     /\ store'.timeline.currentFrame = frameCount
                     /\ ~store'.timeline.isPlaying
                /\ RLt(reached, frameCount) =>
                     /\ store'.timeline.currentFrame = reached
                     /\ store'.timeline.isPlaying
                /\ RLe(store'.timeline.currentFrame, frameCount)
       /\ ~store.timeline.isPlaying =>
            /\ store'.timeline.currentFrame = store.timeline.currentFrame
            /\ ~store'.timeline.isPlaying]_vars

\* a callback that began playing without loop has just stopped playback at
\* the clip's last frame
C5_Witness ==
  /\ obs.op = "tick" /\ ac.isPlayingRef
  /\ ~store.timeline.loop /\ ~store.timeline.isPlaying
  /\ HasCurrentClip(store)
  /\ store.timeline.currentFrame = CurrentClip(store).frameCount
  /\ RLt(R(1), obs.frameDelta)

\* C8: after a forward-kinematics pass, for every chain P -> A -> B the
\* position of B is the position of A after the pass plus B's rest offset
\* turned by the rotation of A after the pass.
C8_ChildUsesUpdatedParent ==
  [][obs'.fkPasses > 0 =>
       LET bones == store'.skeleton
           restPose == ac'.restPose
       IN  \A i \in DOMAIN bones :
             LET b == bones[i]
                 p == BoneIndex(bones, b.parentId)
             IN  (/\ b.parentId # Null /\ p # 0
                  /\ bones[p].parentId # Null
                  /\ b.id \in DOMAIN restPose /\ bones[p].id \in DOMAIN restPose)
                 => b.position =
                      VAdd(bones[p].position,
                           ApplyQuaternion(restPose[b.id].localOffset,
                                           bones[p].rotation))]_vars

TracksOf(s, boneId, property) ==
  {t \in DOMAIN CurrentClip(s).tracks :
     /\ CurrentClip(s).tracks[t].boneId = boneId
     /\ CurrentClip(s).tracks[t].property = property}

\* C9: after the forward-kinematics pass of a frame callback every bone with
\* a parent and no rotation track in the current clip has rotation
\* parentRot * (parentRestRot^-1 * childRestRot), and every such bone with no
\* position track has position parentPos + parentRot * restLocalOffset, the
\* parent's transform being the one after the pass.
C9_UnkeyedBonesInheritParentTransform ==
  [][(obs'.op = "tick" /\ obs'.fkPasses > 0) =>
       LET bones == store'.skeleton
           restPose == ac'.restPose
       IN  \A i \in DOMAIN bones :
             LET b == bones[i]
                 p == BoneIndex(bones, b.parentId)
                 restLocalRot == QMul(QInvert(restPose[bones[p].id].rotation),
                                      restPose[b.id].rotation)
             IN  (/\ b.parentId # Null /\ p # 0
                  /\ b.id \in DOMAIN restPose /\ bones[p].id \in DOMAIN restPose)
                 => /\ TracksOf(store', b.id, "rotation") = {} =>
                         b.rotation = QMul(bones[p].rotation, restLocalRot)
                    /\ (/\ TracksOf(store', b.id, "rotation") = {}
                        /\ TracksOf(store', b.id, "position") = {}) =>
                         b.position =
                           VAdd(bones[p].position,
                                ApplyQuaternion(restPose[b.id].localOffset,
                                                bones[p].rotation))]_vars

AutoWeightInputs ==
  {[f \in {"falloff"} |-> R(3)], [f \in {"falloff"} |-> R(7)],
   [f \in {"method"} |-> "envelope"]}
UpdateAutoWeightSettings ==
  /\ \E settings \in AutoWeightInputs :
       Commit([updateAutoWeightSettings(World, settings) EXCEPT
                 !.obs.op = "updateAutoWeightSettings"])
  /\ UNCHANGED <<loadedModel, nextId>>

\* a saved project: a root bone with one child and a clip that turns the
\* root and scales the child
PairProject ==
  [modelPath |-> "model.glb",
   skeleton |-> <<ProjectBone(11, Null, 0), ProjectBone(12, 11, 1)>>,
   weightMap |-> <<>>,
   animations |->
     <<[id |-> 13, name |-> "turn", fps |-> R(30), frameCount |-> R(MaxFrames),
        tracks |-> <<[boneId |-> 11, property |-> "rotation",
                      keyframes |-> <<[frame |-> R(0), value |-> IdentityQuat,
                                       interpolation |-> "linear"],
                                      [frame |-> R(1), value |-> Quat(0, 0, 1, 0),
                                       interpolation |-> "linear"]>>],
                     [boneId |-> 12, property |-> "scale",
                      keyframes |-> <<[frame |-> R(0), value |-> V3(1, 1, 1),
                                       interpolation |-> "linear"],
                                      [frame |-> R(1), value |-> V3(2, 2, 2),
                                       interpolation |-> "linear"]>>]>>]>>]

\* File > Open: the project is loaded; the Viewport mounts when none was shown
OpenProject ==
  /\ LET w == loadProject(World, PairProject)
     IN  Commit([(IF Mounted(store) THEN w ELSE MountViewport(w)) EXCEPT
                   !.obs.op = "openProject"])
  /\ UNCHANGED <<loadedModel, nextId>>

\* ---------------------------------------- specification: activation
\* the project opened: the Viewport mounts, the model is not yet displayed
OpenedWorld == MountViewport(loadProject(FreshWorld, PairProject))

InitActivation ==
  /\ store = OpenedWorld.store
  /\ ac = OpenedWorld.ac
  /\ sb = OpenedWorld.sb
  /\ loadedModel = FALSE
  /\ nextId = 1
  /\ obs = NoObs
  /\ dialogs = InitialDialogs

NextActivation ==
  \/ SetMode
  \/ OnPlayPause
  \/ HandlePlayPause
  \/ HandleStop
  \/ Tick
  \/ ToggleLoop
  \/ NewProject
  \/ OpenProject

SpecActivation == InitActivation /\ [][NextActivation]_vars

\* ------------------------------------------- specification: the binding
\* the opened project with the animate tool chosen
AnimateWorld == setMode(OpenedWorld, "animate")

InitBinding ==
  /\ store = AnimateWorld.store
  /\ ac = AnimateWorld.ac
  /\ sb = AnimateWorld.sb
  /\ loadedModel = FALSE
  /\ nextId = 1
  /\ obs = NoObs
  /\ dialogs = InitialDialogs

NextBinding ==
  \/ ModelDisplayed
  \/ OnPlayPause
  \/ Tick
  \/ UpdateAutoWeightSettings
  \/ HandleDropOnRoot

SpecBinding == InitBinding /\ [][NextBinding]_vars

\* -------------------------------------------------- claims on the binder
\* C6: whenever the binder exists (the Viewport is mounted) and the store
\* update has been processed, the binder is ACTIVE exactly when mode is
\* 'animate' or timeline.isPlaying is true.
C6_ActiveIffAnimateOrPlaying ==
  Mounted(store) =>
    (sb.isActive <=> (store.mode = "animate" \/ store.timeline.isPlaying))

\* the menu started playback outside animate mode and the binder is ACTIVE
C6_Witness ==
  /\ obs.op = "onPlayPause" /\ Mounted(store)
  /\ store.mode # "animate" /\ store.timeline.isPlaying
  /\ sb.isActive

IdParentList(bones) == [i \in DOMAIN bones |-> <<bones[i].id, bones[i].parentId>>]
AutoWeightValues(s) ==
  <<s.autoWeightSettings.method, s.autoWeightSettings.falloff,
    s.autoWeightSettings.smoothIterations, s.autoWeightSettings.neighborWeight>>

\* C7: a step that begins with the binder ACTIVE and a binding built, and ends
\* with the binder ACTIVE, discards and rebuilds the binding if and only if
\* the list of id:parentId pairs or the auto-weight settings changed; a step
\* that changes neither (bone positions, rotations, scales only) rebuilds
\* nothing and keeps the binding.
C7_RebuildIffStructureOrSettingsChange ==
  [][(/\ Mounted(store) /\ Mounted(store')
      /\ sb.isActive /\ sb.built /\ sb'.isActive)
     => /\ obs'.rebuilds > 0 <=>
             \/ IdParentList(store'.skeleton) # IdParentList(store.skeleton)
             \/ AutoWeightValues(store') # AutoWeightValues(store)
        /\ obs'.rebuilds = 0 => (sb'.built /\ obs'.cleanups = 0)]_vars

\* a frame callback moved bones by forward kinematics while the binder was
\* ACTIVE, nothing was rebuilt and the binding is still there
C7_Witness ==
  /\ obs.op = "tick" /\ obs.fkPasses > 0
  /\ sb.isActive /\ sb.built
  /\ obs.rebuilds = 0 /\ obs.cleanups = 0

\* ------------------------------- specification: editing under the evaluator
\* the hierarchy panel stays usable in animate mode: bones are re-parented
\* between scrubs while playback is stopped
NextRestPose ==
  \/ Tick
  \/ Scrub
  \/ HandleDrop

SpecRestPose == InitPlayback /\ [][NextRestPose]_vars

\* the offset of bone b from its parent p as the rest pose rp holds them
RestOffsetFromParent(rp, b, p) ==
  ApplyQuaternion(VSub(rp[b].position, rp[p].position), QInvert(rp[p].rotation))

\* C11: every forward-kinematics pass works on a rest pose of the present
\* bone structure: each bone with a parent is in the rest pose together with
\* its parent, and its local offset is the one from that parent, not an
\* offset captured under an earlier parent.
C11_RestPoseOfCurrentStructure ==
  [][obs'.fkPasses > 0 =>
       LET bones == store'.skeleton
           rp == ac'.restPose
       IN  \A i \in DOMAIN bones :
             LET p == BoneIndex(bones, bones[i].parentId)
             IN  (bones[i].parentId # Null /\ p # 0) =>
                   /\ bones[i].id \in DOMAIN rp
                   /\ bones[p].id \in DOMAIN rp
                   /\ rp[bones[i].id].localOffset =
                        RestOffsetFromParent(rp, bones[i].id, bones[p].id)]_vars

\* C12: in every frame in which the binder refreshes the bones of the skinned
\* meshes, the transforms they carry when the frame is drawn are those of the
\* pose sampled and propagated in that same frame.
C12_MatricesReflectPoseOfSameTick ==
  [][(/\ obs'.op = "tick"
      /\ sb.isActive /\ sb.built /\ Len(store.skeleton) > 0)
     => sb'.posed = store'.skeleton]_vars

\* ------------------------------------------------------------ skin binding
\* the one mesh of the displayed model: its name and the world positions of
\* its vertices (the mesh sits at the origin, its world matrix is the identity)
MeshName == "body"
MeshVertices == <<V3(0, 0, 0), V3(3, 0, 0)>>

\* the bone a skeleton adds above several roots ('Root', 'Armature')
SyntheticRoot == -1

\* the bones added to the three.js bone of id, in the order of parent.add
ThreeChildren(bones, id) ==
  LET kids == SelectSeq(bones, LAMBDA b : b.parentId # Null /\ b.parentId = id)
  IN  [i \in DOMAIN kids |-> kids[i].id]

RootBones(bones) ==
  LET roots == SelectSeq(bones, LAMBDA b : b.parentId = Null)
  IN  [i \in DOMAIN roots |-> roots[i].id]

\* the array index under which the maps of both skeleton builders hold a
\* bone id (a later bone of the same id overwrites an earlier one)
LastIndexOf(bones, id) ==
  CHOOSE i \in DOMAIN bones :
    bones[i].id = id /\ \A j \in DOMAIN bones : bones[j].id = id => j <= i

\* buildThreeSkeleton: bones is THREE.Skeleton.bones as editor ids,
\* boneIndexMap the 0-based index handed to createSkinnedMesh
buildThreeSkeleton(bones) ==
  LET roots == RootBones(bones)
      shift == IF Len(roots) > 1 THEN 1 ELSE 0
  IN  [ok |-> Len(bones) > 0 /\ Len(roots) > 0,
       rootBone |-> IF Len(roots) = 1 THEN roots[1] ELSE SyntheticRoot,
       bones |-> (IF Len(roots) > 1 THEN <<SyntheticRoot>> ELSE <<>>)
                   \o [i \in DOMAIN bones |-> bones[i].id],
       boneIndexMap |->
         [id \in BoneIds(bones) |-> LastIndexOf(bones, id) - 1 + shift]]

\* Object3D.traverse of a bone hierarchy: the bone, then its children in order
RECURSIVE TraverseBones(_, _, _)
TraverseBones(bones, ids, n) ==
  IF ids = <<>> \/ n = 0 THEN <<>>
  ELSE <<Head(ids)>>
         \o TraverseBones(bones, ThreeChildren(bones, Head(ids)) \o Tail(ids), n - 1)

\* cloneBoneHierarchy(rootBone) and the traverse that collects clonedBones:
\* the bones of the skeleton the skinned mesh is bound to
ClonedSkeletonBones(bones) ==
  LET built == buildThreeSkeleton(bones)
  IN  IF built.rootBone = SyntheticRoot
      THEN <<SyntheticRoot>> \o TraverseBones(bones, RootBones(bones), Len(bones))
      ELSE TraverseBones(bones, <<built.rootBone>>, Len(bones))

\* mapToSkeletonIndices; boneIdx is the 0-based index into the editor bones
mapToSkeletonIndices(weights, bones, boneIndexMap) ==
  [j \in DOMAIN weights |->
     <<IF weights[j][1] >= 0 /\ weights[j][1] < Len(bones)
       THEN boneIndexMap[bones[weights[j][1] + 1].id]
       ELSE weights[j][1],
       weights[j][2]>>]

DistanceSquared(u, v) ==
  LET d == VSub(u, v)
  IN  RAdd(RMul(d[1], d[1]), RAdd(RMul(d[2], d[2]), RMul(d[3], d[3])))

\* the forEach that keeps the strictly nearest bone: the first of the nearest
NearestBoneIndex(bones, pos) ==
  CHOOSE i \in DOMAIN bones :
    /\ \A j \in 1..(i - 1) :
         RLt(DistanceSquared(pos, bones[i].position),
             DistanceSquared(pos, bones[j].position))
    /\ \A j \in (i + 1)..Len(bones) :
         RLe(DistanceSquared(pos, bones[i].position),
             DistanceSquared(pos, bones[j].position))

NearestBoneWeights(bones, pos, boneIndexMap) ==
  <<<<boneIndexMap[bones[NearestBoneIndex(bones, pos)].id], R(1)>>>>

\* weights.sort((a, b) => b[1] - a[1]): stable, heaviest first
RECURSIVE SortByWeight(_)
InsertByWeight(sorted, e) ==
  LET before == SelectSeq(sorted, LAMBDA x : RLe(e[2], x[2]))
      after == SelectSeq(sorted, LAMBDA x : RLt(x[2], e[2]))
  IN  before \o <<e>> \o after
SortByWeight(s) ==
  IF s = <<>> THEN <<>>
  ELSE InsertByWeight(SortByWeight(SubSeq(s, 1, Len(s) - 1)), s[Len(s)])

RECURSIVE SumOfWeights(_)
SumOfWeights(s) ==
  IF s = <<>> THEN R(0) ELSE RAdd(Head(s)[2], SumOfWeights(Tail(s)))

\* a normalisation that keeps the four heaviest weights as they are
KeepTopFour(weights) ==
  LET sorted == SortByWeight(weights)
      top == SubSeq(sorted, 1, IF Len(sorted) < 4 THEN Len(sorted) ELSE 4)
  IN  top \o [i \in 1..(4 - Len(top)) |-> <<0, R(0)>>]

\* top four, padded with [0, 0], divided by their total (or bone 0 at 1)
TopFourNormalized(weights) ==
  LET sorted == SortByWeight(weights)
      top == SubSeq(sorted, 1, IF Len(sorted) < 4 THEN Len(sorted) ELSE 4)
      padded == top \o [i \in 1..(4 - Len(top)) |-> <<0, R(0)>>]
      total == SumOfWeights(padded)
  IN  IF RLt(R(0), total)
      THEN [i \in 1..4 |-> <<padded[i][1], RDiv(padded[i][2], total)>>]
      ELSE [padded EXCEPT ![1] = <<0, R(1)>>]

\* weightMap[mesh.name]?.vertexWeights, [] when the mesh has no entry
StoredVertexWeights(weightMap) ==
  IF MeshName \in DOMAIN weightMap THEN weightMap[MeshName].vertexWeights ELSE <<>>

needsAutoWeights(weightMap) ==
  LET vw == StoredVertexWeights(weightMap)
  IN  \/ MeshName \notin DOMAIN weightMap
      \/ Len(vw) < Len(MeshVertices)
      \/ \E i \in DOMAIN vw : Len(vw[i]) = 0

\* the weights of vertex i before the top-four step, as createSkinnedMesh
\* of SkeletonBinding picks them; auto is what calculateAutomaticWeightsForMesh
\* returns for the mesh
LiveVertexWeights(i, bones, weightMap, auto, boneIndexMap) ==
  LET vw == StoredVertexWeights(weightMap)
      weights ==
        IF MeshName \in DOMAIN weightMap /\ i <= Len(vw) /\ Len(vw[i]) > 0
        THEN mapToSkeletonIndices(vw[i], bones, boneIndexMap)
        ELSE IF needsAutoWeights(weightMap)
             THEN mapToSkeletonIndices(auto[i], bones, boneIndexMap)
             ELSE <<>>
  IN  IF Len(weights) = 0 /\ Len(bones) > 0
      THEN NearestBoneWeights(bones, MeshVertices[i], boneIndexMap)
      ELSE weights

\* createSkinnedMesh of SkeletonBinding: the skinIndex/skinWeight attribute
\* of every vertex and the bones of the skeleton the mesh is bound to
createSkinnedMesh(bones, weightMap, auto) ==
  LET built == buildThreeSkeleton(bones)
  IN  [skin |-> [i \in DOMAIN MeshVertices |->
                   TopFourNormalized(
                     LiveVertexWeights(i, bones, weightMap, auto, built.boneIndexMap))],
       bones |-> ClonedSkeletonBones(bones)]

\* buildExportSkeleton; boneIndexMap is the map createExportSkinnedMesh
\* derives from skeleton.bones and boneMap
buildExportSkeleton(bones) ==
  LET roots == RootBones(bones)
      shift == IF Len(roots) > 1 THEN 1 ELSE 0
  IN  [ok |-> Len(bones) > 0 /\ Len(roots) > 0,
       bones |-> (IF Len(roots) > 1 THEN <<SyntheticRoot>> ELSE <<>>)
                   \o [i \in DOMAIN bones |-> bones[i].id],
       boneIndexMap |->
         [id \in BoneIds(bones) |-> LastIndexOf(bones, id) - 1 + shift]]

\* the weights of vertex i as createExportSkinnedMesh picks them: a stored
\* entry is taken whenever it is there, empty or not
ExportVertexWeights(i, bones, weightMap, auto, boneIndexMap) ==
  LET vw == StoredVertexWeights(weightMap)
      weights ==
        IF MeshName \in DOMAIN weightMap /\ i <= Len(vw)
        THEN mapToSkeletonIndices(vw[i], bones, boneIndexMap)
        ELSE IF needsAutoWeights(weightMap)
             THEN mapToSkeletonIndices(auto[i], bones, boneIndexMap)
             ELSE <<>>
  IN  IF Len(weights) = 0 /\ Len(bones) > 0
      THEN NearestBoneWeights(bones, MeshVertices[i], boneIndexMap)
      ELSE weights

\* createExportSkinnedMesh: the mesh is bound to the skeleton it was given
createExportSkinnedMesh(bones, weightMap, auto) ==
  LET built == buildExportSkeleton(bones)
  IN  [skin |-> [i \in DOMAIN MeshVertices |->
                   TopFourNormalized(
                     ExportVertexWeights(i, bones, weightMap, auto, built.boneIndexMap))],
       bones |-> built.bones]

\* ------------------------------------------- specification: skin binding
\* skeletons as lists of parent positions (0 for a root): one bone, a
\* branching tree, two roots, a chain of five, a child created before the
\* bone that became its parent
SkinSkeletonShapes ==
  {<<0>>, <<0, 1, 1, 2>>, <<0, 0, 1>>, <<0, 1, 2, 3, 4>>, <<2, 0>>}
SkinSkeleton(shape) ==
  [i \in DOMAIN shape |->
     ProjectBone(10 + i, IF shape[i] = 0 THEN Null ELSE 10 + shape[i], i - 1)]

\* weight lists of one vertex, [boneIndex, weight] pairs: nothing painted, one
\* bone, a stroke of strength 0, two bones, five bones
WeightLists ==
  {<<>>, <<<<0, R(1)>>>>, <<<<1, R(0)>>>>, <<<<2, R(1)>>>>,
   <<<<1, Q(1, 2)>>, <<2, Q(1, 2)>>>>,
   <<<<0, Q(1, 10)>>, <<1, Q(1, 10)>>, <<2, Q(1, 5)>>, <<3, Q(1, 5)>>, <<4, Q(2, 5)>>>>}
WeightListsFor(n) ==
  {l \in WeightLists : \A j \in DOMAIN l : l[j][1] < n}

\* what the weight calculator returns for one vertex: outside every
\* envelope, inside one, inside two
AutoWeightLists == {<<>>, <<<<0, Q(1, 2)>>>>, <<<<0, Q(1, 4)>>, <<1, Q(3, 4)>>>>}
AutoWeightOutputs(n) ==
  LET lists == {l \in AutoWeightLists : \A j \in DOMAIN l : l[j][1] < n}
  IN  [DOMAIN MeshVertices -> lists]

\* the weight maps a project holds for the mesh: none, or an entry for the
\* first vertices of the mesh
SkinWeightMaps(n) ==
  {<<>>} \cup
  {[m \in {MeshName} |-> [vertexWeights |-> vw]] :
     vw \in UNION {[1..k -> WeightListsFor(n)] : k \in 1..Len(MeshVertices)}}

SkinProjects ==
  UNION {{[modelPath |-> "model.glb", skeleton |-> SkinSkeleton(shape),
           weightMap |-> wm, animations |-> <<>>] :
            wm \in SkinWeightMaps(Len(shape))} : shape \in SkinSkeletonShapes}

SkinWorld(data) ==
  setMode(MountViewport(loadProject(FreshWorld, data)), "animate")

InitSkinning ==
  \E data \in SkinProjects :
    /\ store = SkinWorld(data).store
    /\ ac = SkinWorld(data).ac
    /\ sb = SkinWorld(data).sb
    /\ loadedModel = TRUE
    /\ nextId = 1
    /\ obs = NoObs
    /\ dialogs = InitialDialogs

\* what a binding step shows: the automatic weights that were offered, the
\* per-vertex skin attributes and the bones of the bound skeleton
SkinObs(op, auto, mesh) ==
  [op |-> op, auto |-> auto, skin |-> mesh.skin, bones |-> mesh.bones]

\* rebuildSkinnedMeshes turns the mesh into a skinned mesh
BindMesh ==
  /\ Mounted(store) /\ loadedModel /\ sb.isActive
  /\ buildThreeSkeleton(store.skeleton).ok
  /\ \E auto \in AutoWeightOutputs(Len(store.skeleton)) :
       obs' = SkinObs("createSkinnedMesh", auto,
                      createSkinnedMesh(store.skeleton, store.weightMap, auto))
  /\ UNCHANGED <<store, ac, sb, loadedModel, nextId, dialogs>>

\* exportToGLB turns the mesh into a skinned mesh of the exported scene
ExportMesh ==
  /\ loadedModel
  /\ buildExportSkeleton(store.skeleton).ok
  /\ \E auto \in AutoWeightOutputs(Len(store.skeleton)) :
       obs' = SkinObs("createExportSkinnedMesh", auto,
                      createExportSkinnedMesh(store.skeleton, store.weightMap, auto))
  /\ UNCHANGED <<store, ac, sb, loadedModel, nextId, dialogs>>

NextSkinning ==
  \/ BindMesh
  \/ ExportMesh

SpecSkinning == InitSkinning /\ [][NextSkinning]_vars

\* ------------------------------------------------ claims on skin binding
SkinStep == obs.op \in {"createSkinnedMesh", "createExportSkinnedMesh"}
StoredEntry(i) ==
  IF i <= Len(StoredVertexWeights(store.weightMap))
  THEN StoredVertexWeights(store.weightMap)[i] ELSE <<>>
SingleBone(pairs) ==
  pairs[1][2] = R(1) /\ \A j \in 2..4 : pairs[j] = <<0, R(0)>>

\* C13: for every vertex the live binder and the exporter write exactly four
\* (boneIndex, weight) pairs whose weights sum to 1, padded with (0, 0) after
\* the influences, and a single bone at weight 1 when the vertex has no
\* weight data or its stored weights total 0.
C13_FourPairsSummingToOne ==
  SkinStep =>
    \A i \in DOMAIN MeshVertices :
      LET pairs == obs.skin[i]
          influences == IF StoredEntry(i) # <<>> THEN Len(StoredEntry(i))
                        ELSE IF obs.auto[i] # <<>> THEN Len(obs.auto[i])
                        ELSE 1
      IN  /\ DOMAIN pairs = 1..4
          /\ RAdd(RAdd(pairs[1][2], pairs[2][2]), RAdd(pairs[3][2], pairs[4][2])) = R(1)
          /\ \A j \in 1..4 : RLe(R(0), pairs[j][2])
          /\ \A j \in (influences + 1)..4 : pairs[j] = <<0, R(0)>>
          /\ (StoredEntry(i) = <<>> /\ obs.auto[i] = <<>>) => SingleBone(pairs)
          /\ (/\ StoredEntry(i) # <<>>
              /\ \A j \in DOMAIN StoredEntry(i) : StoredEntry(i)[j][2] = R(0))
               => pairs = <<<<0, R(1)>>, <<0, R(0)>>, <<0, R(0)>>, <<0, R(0)>>>>

\* the live binder has bound a vertex that carried five stored influences
C13_Witness ==
  /\ obs.op = "createSkinnedMesh"
  /\ Len(StoredEntry(1)) = 5
  /\ obs.skin[1][1] = <<4, Q(4, 9)>>

\* the weights the order of sources gives vertex i: the stored entry when it
\* is present and non-empty, else the automatic weights, else the nearest bone
WeightsBySourceOrder(i, boneIndexMap) ==
  IF StoredEntry(i) # <<>>
  THEN mapToSkeletonIndices(StoredEntry(i), store.skeleton, boneIndexMap)
  ELSE IF obs.auto[i] # <<>>
       THEN mapToSkeletonIndices(obs.auto[i], store.skeleton, boneIndexMap)
       ELSE NearestBoneWeights(store.skeleton, MeshVertices[i], boneIndexMap)

\* C14: in the live binder and in the exporter alike, the skin attributes of
\* every vertex are those of its stored weight-map entry when that entry is
\* present and non-empty, otherwise those of the freshly computed automatic
\* weights, and those of the nearest bone only when both are empty.
C14_WeightSourceOrder ==
  SkinStep =>
    \A i \in DOMAIN MeshVertices :
      obs.skin[i] =
        TopFourNormalized(
          WeightsBySourceOrder(i, buildThreeSkeleton(store.skeleton).boneIndexMap))

\* C15: for every vertex bound from its stored entry (at most four
\* influences, all of positive weight), each influence of the editor bone at
\* insertion position k appears in the skin attributes with a skin index
\* that, in the bones of the skeleton the skinned mesh is bound to, is the
\* bone of that same editor bone.
C15_SkinIndexIdentifiesBone ==
  SkinStep =>
    \A i \in DOMAIN MeshVertices :
      LET e == StoredEntry(i)
      IN  (/\ e # <<>> /\ Len(e) <= 4
           /\ \A j \in DOMAIN e : RLt(R(0), e[j][2]))
          => \A j \in DOMAIN e :
               \E k \in 1..4 :
                 LET skinIndex == obs.skin[i][k][1]
                 IN  /\ obs.skin[i][k][2] = RDiv(e[j][2], SumOfWeights(e))
                     /\ skinIndex + 1 \in DOMAIN obs.bones
                     /\ obs.bones[skinIndex + 1] = store.skeleton[e[j][1] + 1].id

\* -------------------------------------------------- exporter: animations
\* Math.sqrt on the squared norms the sampled quaternions produce
SqrtOfNorm(x) ==
  CHOOSE r \in {Q(n, d) : n \in 0..10, d \in 1..5} : RMul(r, r) = x

QDot(a, b) ==
  RAdd(RAdd(RMul(a[1], b[1]), RMul(a[2], b[2])),
       RAdd(RMul(a[3], b[3]), RMul(a[4], b[4])))

\* the component-wise mix a + (b - a) * t
LerpValues(a, b, t) ==
  [i \in DOMAIN a |-> RAdd(a[i], RMul(RSub(b[i], a[i]), t))]

\* THREE.Quaternion.slerp at the blend factors the sampled frames produce:
\* the ends, and the midpoint (the normalised sum along the shorter arc)
Slerp(qa, qb, t) ==
  LET qs == IF RLt(QDot(qa, qb), R(0)) THEN [i \in 1..4 |-> RNeg(qb[i])] ELSE qb
      sum == [i \in 1..4 |-> RAdd(qa[i], qs[i])]
      norm == SqrtOfNorm(QDot(sum, sum))
  IN  CASE t = R(0) -> qa
        [] t = R(1) -> qb
        [] t = Q(1, 2) ->
             IF RLe(R(1), RAbs(QDot(qa, qb))) THEN qa
             ELSE [i \in 1..4 |-> RDiv(sum[i], norm)]

\* trackLookup.get(boneId)?.get(property): the last track of the clip for
\* the bone and property, <<>> when there is none
ExportTrackKeyframes(tracks, boneId, property) ==
  LET found == {i \in DOMAIN tracks :
                  tracks[i].boneId = boneId /\ tracks[i].property = property}
  IN  IF found = {} THEN <<>>
      ELSE tracks[CHOOSE i \in found : \A j \in found : j <= i].keyframes

\* F applied to a value that is computed once
With(value, F(_)) == CHOOSE r \in {F(x) : x \in {value}} : TRUE

\* the keyframes the search of getAnimatedValueAtFrame stops between
KeyframesAround(keyframes, frame) ==
  LET atOrAfter == {i \in DOMAIN keyframes : RLe(frame, keyframes[i].frame)}
      stop == IF atOrAfter = {} THEN Len(keyframes)
              ELSE CHOOSE i \in atOrAfter : \A j \in atOrAfter : i <= j
      atOrBefore == {i \in 1..stop : RLe(keyframes[i].frame, frame)}
  IN  [before |-> IF atOrBefore = {} THEN keyframes[1]
                  ELSE keyframes[CHOOSE i \in atOrBefore : \A j \in atOrBefore : j <= i],
       after |-> IF atOrAfter = {} THEN keyframes[Len(keyframes)] ELSE keyframes[stop]]

\* the blend factor between two keyframes: smoothstep for bezier
BlendAt(before, after, frame) ==
  With(RDiv(RSub(frame, before.frame), RSub(after.frame, before.frame)),
       LAMBDA t : IF before.interpolation = "bezier"
                  THEN RMul(RMul(t, t), RSub(R(3), RMul(R(2), t)))
                  ELSE t)

\* getAnimatedValueAtFrame of buildExportAnimation: <<>> is null
getAnimatedValueAtFrame(tracks, boneId, property, frame) ==
  With(SortByFrame(ExportTrackKeyframes(tracks, boneId, property)),
       LAMBDA keyframes :
         IF keyframes = <<>> THEN <<>>
         ELSE With(KeyframesAround(keyframes, frame), LAMBDA around :
                IF around.before.frame = around.after.frame
                   \/ around.before.frame = frame THEN around.before.value
                ELSE IF around.after.frame = frame THEN around.after.value
                ELSE IF around.before.interpolation = "step" THEN around.before.value
                ELSE With(BlendAt(around.before, around.after, frame), LAMBDA blend :
                       IF property = "rotation"
                       THEN Slerp(around.before.value, around.after.value, blend)
                       ELSE LerpValues(around.before.value, around.after.value, blend))))

\* getParentWorldTransformAtFrame: the parent's track values at the frame,
\* its rest values where it has no track
getParentWorldTransformAtFrame(bones, tracks, boneId, frame) ==
  LET none == [pos |-> V3(0, 0, 0), rot |-> IdentityQuat]
  IN  IF boneId \notin BoneIds(bones) THEN none
      ELSE LET parentId == bones[LastIndexOf(bones, boneId)].parentId
           IN  IF parentId = Null \/ parentId \notin BoneIds(bones) THEN none
               ELSE LET parentRest == bones[LastIndexOf(bones, parentId)]
                    IN  With([property \in {"position", "rotation"} |->
                                getAnimatedValueAtFrame(tracks, parentId, property, frame)],
                             LAMBDA parentAnim :
                               [pos |-> IF parentAnim["position"] # <<>>
                                        THEN parentAnim["position"]
                                        ELSE parentRest.position,
                                rot |-> IF parentAnim["rotation"] # <<>>
                                        THEN parentAnim["rotation"]
                                        ELSE parentRest.rotation])

HasParentInRest(bones, boneId) ==
  boneId \in BoneIds(bones) /\ bones[LastIndexOf(bones, boneId)].parentId # Null

\* worldToLocalPosition and worldToLocalRotation: the value of a root bone
\* as it is, else inverse(parentRot) * (worldPos - parentPos) and
\* inverse(parentRot) * worldRot
WorldToLocal(bones, tracks, boneId, property, worldValue, frame) ==
  IF ~HasParentInRest(bones, boneId) THEN worldValue
  ELSE With(getParentWorldTransformAtFrame(bones, tracks, boneId, frame),
            LAMBDA parent :
              IF property = "position"
              THEN With(VSub(worldValue, parent.pos),
                        LAMBDA offset : ApplyQuaternion(offset, QInvert(parent.rot)))
              ELSE QMul(QInvert(parent.rot), worldValue))

worldToLocalRotation(bones, tracks, boneId, worldRot, frame) ==
  WorldToLocal(bones, tracks, boneId, "rotation", worldRot, frame)

worldToLocalPosition(bones, tracks, boneId, worldPos, frame) ==
  WorldToLocal(bones, tracks, boneId, "position", worldPos, frame)

\* /(pelvis|hips|hip|root)$/ and then no side suffix at the same end, on the
\* normalised name
isCentralRootName(name) ==
  /\ EndsWithAny(normalizeName(name), PelvisWords \cup {<<"r", "o", "o", "t">>})
  /\ ~EndsWithAny(normalizeName(name), SideSuffixes)

\* the skeleton of getProjectData: the rest transforms of the store's
\* snapshot for the bones it holds
ProjectDataSkeleton(s) ==
  IF ~s.restPoseSnapshot.set THEN s.skeleton
  ELSE <<>> \o [i \in DOMAIN s.skeleton |->
          LET bone == s.skeleton[i]
          IN  IF bone.id \notin DOMAIN s.restPoseSnapshot.pose THEN bone
              ELSE [bone EXCEPT
                      !.position = s.restPoseSnapshot.pose[bone.id].position,
                      !.rotation = s.restPoseSnapshot.pose[bone.id].rotation,
                      !.scale = s.restPoseSnapshot.pose[bone.id].scale]]

\* the frames one track of buildExportAnimation is written at: every frame
\* of the clip when a keyframe is bezier or step, the keyframes' frames else
ShouldBake(track) ==
  \E k \in DOMAIN track.keyframes :
     track.keyframes[k].interpolation \in {"bezier", "step"}

ExportFrameList(animData, track) ==
  LET sortedKeyframes == SortByFrame(track.keyframes)
      rounded == MathRound(animData.frameCount)[1]
      totalFrames == IF rounded < 1 THEN 1 ELSE rounded
  IN  IF ShouldBake(track) THEN [i \in 1..(totalFrames + 1) |-> R(i - 1)]
      ELSE [i \in DOMAIN sortedKeyframes |-> sortedKeyframes[i].frame]

\* the world value frameList.forEach converts for one frame
ExportWorldValue(animData, bones, track, idx, frame) ==
  LET restPose == bones[LastIndexOf(bones, track.boneId)]
      sampled == getAnimatedValueAtFrame(animData.tracks, track.boneId,
                                         track.property, frame)
  IN  IF ShouldBake(track)
      THEN IF sampled # <<>> THEN sampled
           ELSE CASE track.property = "rotation" -> restPose.rotation
                  [] track.property = "position" -> restPose.position
                  [] OTHER -> V3(1, 1, 1)
      ELSE SortByFrame(track.keyframes)[idx].value

\* the body of frameList.forEach for one frame
ExportKey(animData, bones, track, idx) ==
  With(ExportFrameList(animData, track)[idx], LAMBDA frame :
    With(ExportWorldValue(animData, bones, track, idx, frame), LAMBDA worldValue :
      [frame |-> frame,
       time |-> RDiv(frame, IF RLt(R(0), animData.fps) THEN animData.fps ELSE R(30)),
       value |->
         IF track.property \in {"position", "rotation"}
         THEN WorldToLocal(bones, animData.tracks, track.boneId, track.property,
                           worldValue, frame)
         ELSE worldValue]))

\* whether animData.tracks.forEach pushes a track for this one
ExportsTrack(animData, bones, track) ==
  /\ track.boneId \in BoneIds(bones)
  /\ ~(track.property = "position"
       /\ LET boneData == bones[LastIndexOf(bones, track.boneId)]
          IN  boneData.parentId = Null \/ isCentralRootName(boneData.name))
  /\ Len(ExportFrameList(animData, track)) > 0

\* buildExportAnimation: the tracks of the exported clip, <<>> for null
buildExportAnimation(animData, bones) ==
  LET exported == SelectSeq(animData.tracks,
                            LAMBDA track : ExportsTrack(animData, bones, track))
  IN  [i \in DOMAIN exported |->
         [boneId |-> exported[i].boneId,
          property |-> exported[i].property,
          keys |-> [idx \in DOMAIN ExportFrameList(animData, exported[i]) |->
                      ExportKey(animData, bones, exported[i], idx)]]]

\* the animations exportToGLB hands to the GLTF exporter, by clip id
ExportedAnimations(s) ==
  LET bones == ProjectDataSkeleton(s)
      built == buildExportSkeleton(bones)
      clips == [i \in DOMAIN s.animations |->
                  [id |-> s.animations[i].id,
                   tracks |-> buildExportAnimation(s.animations[i], bones)]]
  IN  IF Len(bones) = 0 \/ ~built.ok THEN <<>>
      ELSE SelectSeq(clips, LAMBDA clip : clip.tracks # <<>>)

\* ------------------------------------- specification: sampling and export
\* saved projects: one bone or the chain root -> A -> B along x, and one clip
\* whose tracks turn the root (a key on every frame), swing the last bone
\* (keys two frames apart) and move the last bone
SampleInterpolations == {"linear", "bezier"}
SwingQuat == <<R(0), R(0), Q(24, 25), Q(7, 25)>>

SampleKey(frame, value, interpolation) ==
  [frame |-> R(frame), value |-> value, interpolation |-> interpolation]

TurnTrack(boneId, interpolation) ==
  [boneId |-> boneId, property |-> "rotation",
   keyframes |-> <<SampleKey(0, IdentityQuat, interpolation),
                   SampleKey(1, Quat(0, 0, 1, 0), interpolation),
                   SampleKey(2, IdentityQuat, interpolation)>>]

SwingTrack(boneId, interpolation) ==
  [boneId |-> boneId, property |-> "rotation",
   keyframes |-> <<SampleKey(0, IdentityQuat, interpolation),
                   SampleKey(2, SwingQuat, interpolation)>>]

MoveTrack(boneId, x, interpolation) ==
  [boneId |-> boneId, property |-> "position",
   keyframes |-> <<SampleKey(0, V3(x, 0, 0), interpolation),
                   SampleKey(1, V3(x, 1, 0), interpolation)>>]

\* <<>> or the one track
OptionalTracks(tracks) == {<<>>} \cup {<<track>> : track \in tracks}

SampleSkeletons ==
  {<<ProjectBone(11, Null, 0)>>,
   <<ProjectBone(11, Null, 0), ProjectBone(12, 11, 1)>>,
   <<ProjectBone(11, Null, 0), ProjectBone(12, 11, 1), ProjectBone(13, 12, 2)>>}

SampleTracks(bones) ==
  LET last == bones[Len(bones)]
      turns == IF Len(bones) = 1 THEN {<<>>}
               ELSE OptionalTracks({TurnTrack(11, "linear")})
      swings == OptionalTracks({SwingTrack(last.id, i) :
                                  i \in IF Len(bones) = 2 THEN {"linear"}
                                        ELSE SampleInterpolations})
      moves == OptionalTracks({MoveTrack(last.id, Len(bones) - 1, "linear")})
  IN  {turn \o swing \o move : turn \in turns, swing \in swings, move \in moves}
        \ {<<>>}

SampleProjects ==
  UNION {{[modelPath |-> "model.glb", skeleton |-> bones, weightMap |-> <<>>,
           animations |->
             <<[id |-> 14, name |-> "clip", fps |-> R(30),
                frameCount |-> R(MaxFrames), tracks |-> tracks]>>] :
            tracks \in SampleTracks(bones)} : bones \in SampleSkeletons}

SampleWorld(data) ==
  setMode(MountViewport(loadProject(FreshWorld, data)), "animate")

InitSampling ==
  \E data \in SampleProjects :
    /\ store = SampleWorld(data).store
    /\ ac = SampleWorld(data).ac
    /\ sb = SampleWorld(data).sb
    /\ loadedModel = TRUE
    /\ nextId = 1
    /\ obs = NoObs
    /\ dialogs = InitialDialogs

\* the menu's export (useElectronEvents exportGLB): the clips handed to the
\* GLTF exporter
ExportGLB ==
  /\ loadedModel
  /\ obs' = [op |-> "exportToGLB", animations |-> ExportedAnimations(store)]
  /\ UNCHANGED <<store, ac, sb, loadedModel, nextId, dialogs>>

NextSampling ==
  \/ Scrub
  \/ Tick
  \/ ExportGLB

SpecSampling == InitSampling /\ [][NextSampling]_vars

\* ------------------------------------------ claims on sampling and export
\* the skeleton the editor shows at a frame of a clip: applyAnimation of a
\* freshly mounted AnimationController on the bones handed to the exporter
EditorPoseAtFrame(s, clipId, frame) ==
  applyAnimation([store |-> [s EXCEPT !.skeleton = ProjectDataSkeleton(s),
                                      !.currentAnimationId = clipId],
                  ac |-> InitialAC, sb |-> InitialSB, obs |-> NoObs,
                  loadedModel |-> TRUE], frame).store.skeleton

\* the local value of a world value against a parent pose
LocalAgainst(property, worldValue, parent) ==
  IF property = "position"
  THEN ApplyQuaternion(VSub(worldValue, parent.position), QInvert(parent.rotation))
  ELSE QMul(QInvert(parent.rotation), worldValue)

\* C16: every exported position or rotation key of a bone that has a parent
\* is the bone's world value at the key's frame taken into the frame of the
\* parent's animated world pose at that frame (the pose the editor shows the
\* parent in at that frame, which follows the parent's own ancestors), not
\* into the parent's rest pose when the parent moves.
C16_KeysAgainstAnimatedParentPose ==
  obs.op = "exportToGLB" =>
    \A c \in DOMAIN obs.animations : \A tr \in DOMAIN obs.animations[c].tracks :
      LET clipId == obs.animations[c].id
          track == obs.animations[c].tracks[tr]
          bones == ProjectDataSkeleton(store)
          clip == store.animations[AnimationIndex(store.animations, clipId)]
          bone == bones[LastIndexOf(bones, track.boneId)]
      IN  (track.property \in {"position", "rotation"} /\ bone.parentId # Null) =>
            \A k \in DOMAIN track.keys :
              LET frame == track.keys[k].frame
                  pose == EditorPoseAtFrame(store, clipId, frame)
                  parent == pose[BoneIndex(pose, bone.parentId)]
                  worldValue == getAnimatedValueAtFrame(clip.tracks, track.boneId,
                                                        track.property, frame)
              IN  track.keys[k].value = LocalAgainst(track.property, worldValue, parent)

\* the keyframes around a frame that lies strictly between two keyframes
\* of a track, <<>> when it does not
KeysAround(keyframes, frame) ==
  LET sorted == SortByFrame(keyframes)
      below == {i \in DOMAIN sorted : RLt(sorted[i].frame, frame)}
      above == {i \in DOMAIN sorted : RLt(frame, sorted[i].frame)}
  IN  IF below = {} \/ above = {} \/ below \cup above # DOMAIN sorted THEN <<>>
      ELSE <<sorted[CHOOSE i \in below : \A j \in below : j <= i],
             sorted[CHOOSE i \in above : \A j \in above : i <= j]>>

\* the spherical interpolation between the keyframes around a frame
SlerpAround(around, frame) ==
  LET t == RDiv(RSub(frame, around[1].frame),
                RSub(around[2].frame, around[1].frame))
  IN  Slerp(around[1].value, around[2].value,
            IF around[1].interpolation = "bezier"
            THEN RMul(RMul(t, t), RSub(R(3), RMul(R(2), t))) ELSE t)

\* C17: a rotation sampled strictly between two keyframes whose
\* interpolation is linear or bezier is the spherical interpolation of the
\* two quaternions: in the editor, the rotation a bone shows once the frame
\* has been applied, and in the exporter, the world value behind every baked
\* key.
C17_RotationSamplingIsSlerp ==
  /\ (obs.op = "tick" /\ ac.lastFrame = store.timeline.currentFrame) =>
       LET a == AnimationIndex(store.animations, store.currentAnimationId)
       IN  a # 0 =>
             \A tr \in DOMAIN store.animations[a].tracks :
               LET track == store.animations[a].tracks[tr]
                   around == KeysAround(track.keyframes, ac.lastFrame)
                   b == BoneIndex(store.skeleton, track.boneId)
               IN  (/\ track.property = "rotation" /\ b # 0 /\ around # <<>>
                    /\ around[1].interpolation \in {"linear", "bezier"})
                   => store.skeleton[b].rotation = SlerpAround(around, ac.lastFrame)
  /\ obs.op = "exportToGLB" =>
       \A c \in DOMAIN obs.animations : \A tr \in DOMAIN obs.animations[c].tracks :
         LET track == obs.animations[c].tracks[tr]
             bones == ProjectDataSkeleton(store)
             clip == store.animations[AnimationIndex(store.animations,
                                                     obs.animations[c].id)]
             keyframes == ExportTrackKeyframes(clip.tracks, track.boneId, "rotation")
         IN  track.property = "rotation" =>
               \A k \in DOMAIN track.keys :
                 LET around == KeysAround(keyframes, track.keys[k].frame)
                 IN  (around # <<>> /\ around[1].interpolation \in {"linear", "bezier"})
                     => track.keys[k].value =
                          worldToLocalRotation(bones, clip.tracks, track.boneId,
                            SlerpAround(around, track.keys[k].frame),
                            track.keys[k].frame)

\* ------------------------------------------------------ the oracle calls
\* what happens to the request generateAnimation and
\* generateAIBoneSuggestions send: the timeout aborts it, the network fails,
\* the server answers with an error status, the answer holds no content, or
\* it holds the content data
FailedOutcomes == {"abort", "network", "http", "empty"}
Outcome(kind, data) == [kind |-> kind, data |-> data]

\* generateAnimation with an API key and a prompt that is not about
\* locomotion (applyMotionFallback returns at once)
generateAnimation(bones, outcome, id) ==
  IF Len(bones) = 0 \/ outcome.kind \in FailedOutcomes
  THEN [success |-> FALSE, animation |-> <<>>]
  ELSE parseAnimationResponse(outcome.data, bones, id)

\* sanitizeName: names are <<base, n>>, n the n-th use of the base among the
\* entries parsed so far (n = 1 is the base itself); "" becomes bone_<index + 1>
sanitizeName(name, index, parsed) ==
  LET base == IF name = "" THEN <<"bone", index + 1>> ELSE <<name>>
      count == Cardinality({i \in DOMAIN parsed : parsed[i].name[1] = base})
  IN  <<base, count + 1>>

\* the first loop of parseSuggestions over raw[from..]; a parent index is
\* <<>> for null, <<i>> for the index i
RECURSIVE ParseEach(_, _, _)
ParseEach(raw, from, parsed) ==
  IF from > Len(raw) THEN parsed
  ELSE LET bone == raw[from]
           parentIndex == IF bone.parentIndex # <<>> /\ bone.parentIndex[1] >= 0
                          THEN bone.parentIndex ELSE <<>>
       IN  IF Len(bone.position) # 3 \/ ~AllFinite(bone.position)
           THEN ParseEach(raw, from + 1, parsed)
           ELSE ParseEach(raw, from + 1,
                  Append(parsed, [name |-> sanitizeName(bone.name, from - 1, parsed),
                                  position |-> bone.position,
                                  parentIndex |-> parentIndex]))

\* parseSuggestions: <<>> for null; a parent index that is out of range or
\* the entry's own index is set to null afterwards
parseSuggestions(raw) ==
  LET parsed == ParseEach(raw, 1, <<>>)
  IN  IF Len(raw) = 0 \/ Len(raw) > 128 THEN <<>>
      ELSE <<>> \o [i \in DOMAIN parsed |->
              IF parsed[i].parentIndex # <<>>
                 /\ (parsed[i].parentIndex[1] >= Len(parsed)
                     \/ parsed[i].parentIndex[1] = i - 1)
              THEN [parsed[i] EXCEPT !.parentIndex = <<>>]
              ELSE parsed[i]]

\* generateAIBoneSuggestions with an API key; data.json tells whether the
\* content holds a JSON object
generateAIBoneSuggestions(outcome) ==
  LET suggestions == IF outcome.kind \in FailedOutcomes \/ ~outcome.data.json THEN <<>>
                     ELSE parseSuggestions(outcome.data.bones)
  IN  [success |-> suggestions # <<>>, suggestions |-> suggestions]

\* AIAnimationDialog.handleGenerateApi up to the await: the handler keeps
\* the bones of the render it was created in
StartGenerateAnimation(d, bones) ==
  [d EXCEPT !.animation = [isGenerating |-> TRUE, bones |-> bones]]

\* AutoBonesDialog.handleGenerate up to the await
StartGenerateBones(d) == [d EXCEPT !.autoBones.isGenerating = TRUE]

\* AutoBonesDialog.handleGenerate after the await: the baseline suggestions
\* are listed when the refinement failed
SettleGenerateBones(d, baseSuggestions, result) ==
  [d EXCEPT !.autoBones =
     [isGenerating |-> FALSE,
      suggestions |-> IF result.success THEN result.suggestions ELSE baseSuggestions]]

\* ---------------------------------------------- specification: the oracle
\* what the oracle may answer to an animation request: keyframes with a
\* frame or a component that is not a number, of the wrong shape, for bones
\* the skeleton has and for one it has not
AnswerKeyframes ==
  {[frame |-> R(1), rotation |-> Quat(0, 0, 2, 0), position |-> <<>>],
   [frame |-> R(2), rotation |-> <<R(0), R(0), NotANumber, R(1)>>, position |-> <<>>],
   [frame |-> NotANumber, rotation |-> IdentityQuat, position |-> <<>>],
   [frame |-> R(1), rotation |-> <<R(0)>>, position |-> <<>>],
   [frame |-> R(1), rotation |-> <<>>, position |-> V3(0, 1, 0)],
   [frame |-> R(2), rotation |-> <<>>, position |-> <<R(0), NotANumber, R(0)>>]}

AnswerBones ==
  {[boneName |-> n, keyframes |-> <<kf>>] : n \in OracleBoneNames, kf \in AnswerKeyframes}

AnimationAnswers ==
  {[json |-> FALSE]}
  \cup {[json |-> TRUE, fps |-> NotANumber, frameCount |-> NotANumber, bones |-> bs] :
          bs \in {<<>>} \cup {<<a>> : a \in AnswerBones}
                 \cup {<<a, b>> : a \in AnswerBones, b \in AnswerBones}}

\* what the oracle may answer to a bone request: entry i is placed at x = i
SuggestedBone(i, finite, parentIndex) ==
  [name |-> "spine",
   position |-> IF finite THEN V3(i, 0, 0) ELSE <<R(i), NotANumber, R(0)>>,
   parentIndex |-> parentIndex]

SuggestedParents(n) == {<<>>} \cup {<<i>> : i \in -1..n}

BoneAnswers ==
  {[json |-> FALSE]}
  \cup {[json |-> TRUE, bones |-> <<>>]}
  \cup {[json |-> TRUE, bones |-> <<SuggestedBone(1, f, p)>>] :
          f \in BOOLEAN, p \in SuggestedParents(1)}
  \cup {[json |-> TRUE, bones |-> <<SuggestedBone(1, f, p), SuggestedBone(2, g, q)>>] :
          f \in BOOLEAN, g \in BOOLEAN,
          p \in SuggestedParents(2), q \in SuggestedParents(2)}

\* the answers followed through the dialogs: no JSON, no usable entry, one
\* usable entry
DialogAnimationAnswers ==
  {[json |-> FALSE]}
  \cup {[json |-> TRUE, fps |-> NotANumber, frameCount |-> NotANumber,
          bones |-> <<[boneName |-> n, keyframes |-> <<kf>>]>>] :
          n \in {"bone_t1", "tail"},
          kf \in {[frame |-> R(1), rotation |-> Quat(0, 0, 2, 0), position |-> <<>>]}}

DialogBoneAnswers ==
  {[json |-> FALSE],
   [json |-> TRUE, bones |-> <<SuggestedBone(1, FALSE, <<>>)>>],
   [json |-> TRUE, bones |-> <<SuggestedBone(1, TRUE, <<>>)>>]}

Outcomes(answers) ==
  {Outcome(kind, [json |-> FALSE]) : kind \in FailedOutcomes}
  \cup {Outcome("content", data) : data \in answers}

\* suggestBones of the local heuristic for the displayed model
BaseSuggestions ==
  <<[name |-> <<<<"root">>, 1>>, position |-> V3(0, 0, 0), parentIndex |-> <<>>]>>

\* the saved chain project opened in animate mode with the model displayed
InitOracle ==
  /\ store = PlaybackWorld.store
  /\ ac = PlaybackWorld.ac
  /\ sb = PlaybackWorld.sb
  /\ loadedModel = TRUE
  /\ nextId = 1
  /\ obs = NoObs
  /\ dialogs = InitialDialogs

\* the Generate button of the animation dialog
GenerateAnimationStart ==
  /\ ~dialogs.animation.isGenerating
  /\ Len(store.skeleton) > 0
  /\ dialogs' = StartGenerateAnimation(dialogs, store.skeleton)
  /\ obs' = [NoObs EXCEPT !.op = "generateAnimation"]
  /\ UNCHANGED <<store, ac, sb, loadedModel, nextId>>

\* the awaited generateAnimation settles: applyAnimationResult
GenerateAnimationSettle ==
  /\ dialogs.animation.isGenerating
  /\ nextId <= MaxIds
  /\ \E outcome \in Outcomes(DialogAnimationAnswers) :
       LET result == generateAnimation(dialogs.animation.bones, outcome, nextId)
           w == applyAnimationResult(World, result)
       IN  /\ store' = w.store
           /\ ac' = w.ac
           /\ sb' = w.sb
           /\ obs' = [op |-> "animationSettled", kind |-> outcome.kind,
                      success |-> result.success]
  /\ dialogs' = [dialogs EXCEPT !.animation = InitialDialogs.animation]
  /\ nextId' = nextId + 1
  /\ UNCHANGED loadedModel

\* the Generate Suggestions button of the bone dialog with AI refinement
GenerateBonesStart ==
  /\ loadedModel
  /\ ~dialogs.autoBones.isGenerating
  /\ dialogs' = StartGenerateBones(dialogs)
  /\ obs' = [NoObs EXCEPT !.op = "generateBones"]
  /\ UNCHANGED <<store, ac, sb, loadedModel, nextId>>

\* the awaited generateAIBoneSuggestions settles
GenerateBonesSettle ==
  /\ dialogs.autoBones.isGenerating
  /\ \E outcome \in Outcomes(DialogBoneAnswers) :
       LET result == generateAIBoneSuggestions(outcome)
       IN  /\ dialogs' = SettleGenerateBones(dialogs, BaseSuggestions, result)
           /\ obs' = [op |-> "bonesSettled", kind |-> outcome.kind,
                      success |-> result.success]
  /\ UNCHANGED <<store, ac, sb, loadedModel, nextId>>

NextOracle ==
  \/ GenerateAnimationStart
  \/ GenerateAnimationSettle
  \/ GenerateBonesStart
  \/ GenerateBonesSettle
  \/ DeleteBoneCall

SpecOracle == InitOracle /\ [][NextOracle]_vars

\* -------------------------------------- specification: the oracle's answers
\* the parsers applied to every answer, for the bones of the chain project
ParseAnimationAnswer ==
  /\ \E data \in AnimationAnswers :
       obs' = [op |-> "parseAnimationResponse", data |-> data,
               result |-> parseAnimationResponse(data, store.skeleton, nextId)]
  /\ UNCHANGED <<store, ac, sb, loadedModel, nextId, dialogs>>

ParseBoneAnswer ==
  /\ \E data \in BoneAnswers :
       obs' = [op |-> "generateAIBoneSuggestions", data |-> data,
               result |-> generateAIBoneSuggestions(Outcome("content", data))]
  /\ UNCHANGED <<store, ac, sb, loadedModel, nextId, dialogs>>

NextAnswers ==
  \/ ParseAnimationAnswer
  \/ ParseBoneAnswer

SpecAnswers == InitOracle /\ [][NextAnswers]_vars

\* ------------------------------------------------- claims on the oracle
\* C18: a step in which an oracle call settles without success (the request
\* timed out, failed, was answered with an error or with nothing usable)
\* leaves the skeleton, the weight map, the animation list and
\* currentAnimationId as they were.
C18_FailedCallLeavesStateUnchanged ==
  [][(obs'.op \in {"animationSettled", "bonesSettled"} /\ ~obs'.success)
       => /\ store'.skeleton = store.skeleton
          /\ store'.weightMap = store.weightMap
          /\ store'.animations = store.animations
          /\ store'.currentAnimationId = store.currentAnimationId]_vars

\* an animation request that timed out has settled after a bone was deleted,
\* a clip being current
C18_Witness ==
  /\ obs.op = "animationSettled" /\ obs.kind = "abort" /\ ~obs.success
  /\ Len(store.skeleton) = 2
  /\ store.currentAnimationId = 14

\* C19: the result of an oracle call is written into the editor state only
\* when the request is still the current one: the skeleton the request was
\* made for is the skeleton at the time the response arrives, so that no
\* response is applied over an edit made while the call was awaited.
C19_StaleResultNotApplied ==
  [][(obs'.op = "animationSettled" /\ store' # store)
       => dialogs.animation.bones = store.skeleton]_vars

\* a keyframe entry of an animation answer that none of the three rules
\* drops: it names a bone of the skeleton, its frame is finite, and it holds
\* a rotation or a position of the expected shape whose numbers are finite
UsableKeyframe(boneAnim, kf, property, bones) ==
  /\ BoneIdOfName(bones, ToLowerCase(boneAnim.boneName)) # Null
  /\ IsFinite(kf.frame)
  /\ IF property = "rotation" THEN Len(kf.rotation) = 4 /\ AllFinite(kf.rotation)
     ELSE Len(kf.position) = 3 /\ AllFinite(kf.position)

UsableKeyframes(data, bones) ==
  IF ~data.json THEN {}
  ELSE UNION {{<<b, k, property>> :
                 k \in {j \in DOMAIN data.bones[b].keyframes :
                          UsableKeyframe(data.bones[b], data.bones[b].keyframes[j],
                                         property, bones)}} :
                b \in DOMAIN data.bones, property \in {"rotation", "position"}}

\* the entry of a bone answer at index i (from 1) that none of the rules
\* drops: finite position, and a parent index that is null or the index of
\* another entry of the answer
UsableBone(raw, i) ==
  /\ Len(raw[i].position) = 3 /\ AllFinite(raw[i].position)
  /\ \/ raw[i].parentIndex = <<>>
     \/ /\ raw[i].parentIndex[1] \in 0..(Len(raw) - 1)
        /\ raw[i].parentIndex[1] # i - 1

UsableBones(data) ==
  IF ~data.json THEN {} ELSE {i \in DOMAIN data.bones : UsableBone(data.bones, i)}

\* C20: an answer of the oracle is accepted exactly when at least one of its
\* entries is usable, i.e. is left after every entry with a number that is
\* not finite, with a parent index that is out of range or its own, or with
\* a bone name the skeleton does not have has been dropped; what an accepted
\* result holds comes from usable entries only (besides the rest key added
\* at frame 0), and an answer without a usable entry gives a failure.
C20_AcceptedIffUsableEntryRemains ==
  /\ obs.op = "parseAnimationResponse" =>
       LET usable == UsableKeyframes(obs.data, store.skeleton)
       IN  /\ obs.result.success <=> usable # {}
           /\ obs.result.success =>
                \A tr \in DOMAIN obs.result.animation[1].tracks :
                  LET track == obs.result.animation[1].tracks[tr]
                  IN  \A k \in DOMAIN track.keyframes :
                        \/ track.keyframes[k].frame = R(0)
                        \/ \E u \in usable :
                             LET boneAnim == obs.data.bones[u[1]]
                                 kf == boneAnim.keyframes[u[2]]
                             IN  /\ u[3] = track.property
                                 /\ BoneIdOfName(store.skeleton,
                                      ToLowerCase(boneAnim.boneName)) = track.boneId
                                 /\ OracleFrame(kf) = track.keyframes[k].frame
  /\ obs.op = "generateAIBoneSuggestions" =>
       LET usable == UsableBones(obs.data)
       IN  /\ obs.result.success <=> usable # {}
           /\ obs.result.success =>
                {obs.result.suggestions[i].position : i \in DOMAIN obs.result.suggestions}
                  = {obs.data.bones[i].position : i \in usable}

\* --------------------------------- specification: root motion on export
\* getSide of the animation service: /(^|_|\.|-)(left|l)(_|\.|-|$)/, the
\* same for right, on the normalised name; "none" for null
NameDelimiters == {"_", ".", "-"}

HasSideWord(chars, words) ==
  \E word \in words : \E from \in DOMAIN chars :
     /\ from + Len(word) - 1 <= Len(chars)
     /\ \A i \in DOMAIN word : chars[from + i - 1] = word[i]
     /\ from = 1 \/ chars[from - 1] \in NameDelimiters
     /\ from + Len(word) - 1 = Len(chars) \/ chars[from + Len(word)] \in NameDelimiters

getSide(name) ==
  IF HasSideWord(normalizeName(name), {<<"l", "e", "f", "t">>, <<"l">>}) THEN "left"
  ELSE IF HasSideWord(normalizeName(name), {<<"r", "i", "g", "h", "t">>, <<"r">>}) THEN "right"
  ELSE "none"

\* saved projects: a root and one child whose name varies, and a clip that
\* moves the child and may move or turn the root
ChildNames == {"bone_t1", "spine", "hip", "Hips", "pelvis", "left_hip",
               "Left  Hip", "hip_l", "tail_root"}

RootMotionProjects ==
  {[modelPath |-> "model.glb",
    skeleton |-> <<ProjectBone(11, Null, 0),
                   [ProjectBone(12, 11, 1) EXCEPT !.name = name]>>,
    weightMap |-> <<>>,
    animations |->
      <<[id |-> 14, name |-> "clip", fps |-> R(30), frameCount |-> R(MaxFrames),
         tracks |-> rootTrack \o <<MoveTrack(12, 1, "linear")>>]>>] :
     name \in ChildNames,
     rootTrack \in OptionalTracks({MoveTrack(11, 0, "linear"), TurnTrack(11, "linear")})}

InitRootMotion ==
  \E data \in RootMotionProjects :
    /\ store = SampleWorld(data).store
    /\ ac = SampleWorld(data).ac
    /\ sb = SampleWorld(data).sb
    /\ loadedModel = TRUE
    /\ nextId = 1
    /\ obs = NoObs
    /\ dialogs = InitialDialogs

NextRootMotion ==
  \/ Scrub
  \/ ExportGLB

SpecRootMotion == InitRootMotion /\ [][NextRootMotion]_vars

\* whether the export holds a track of the clip for the bone and property
IsExported(animations, clipId, boneId, property) ==
  \E c \in DOMAIN animations :
     /\ animations[c].id = clipId
     /\ \E tr \in DOMAIN animations[c].tracks :
          /\ animations[c].tracks[tr].boneId = boneId
          /\ animations[c].tracks[tr].property = property

\* a central pelvis-like bone: the name matches pelvis, hips or hip and
\* carries no left or right side qualifier
CentralPelvisLike(name) ==
  /\ EndsWithAny(normalizeName(name), PelvisWords)
  /\ getSide(name) = "none"

\* C21: on export the position track of a bone is left out when the bone has
\* no parent or is a central pelvis-like bone (name matches pelvis/hips/hip
\* without a left/right side qualifier), and the position track of a bone
\* with a parent whose name carries a side qualifier, such as left_hip, is
\* not treated as central: it is exported.
C21_RootPositionTracksSuppressed ==
  obs.op = "exportToGLB" =>
    \A a \in DOMAIN store.animations : \A tr \in DOMAIN store.animations[a].tracks :
       LET track == store.animations[a].tracks[tr]
           bones == ProjectDataSkeleton(store)
           bone == bones[LastIndexOf(bones, track.boneId)]
       IN  (track.property = "position" /\ track.boneId \in BoneIds(bones)) =>
             /\ (bone.parentId = Null \/ CentralPelvisLike(bone.name)) =>
                  ~IsExported(obs.animations, store.animations[a].id,
                              track.boneId, "position")
             /\ (bone.parentId # Null /\ getSide(bone.name) # "none") =>
                  IsExported(obs.animations, store.animations[a].id,
                             track.boneId, "position")

\* ------------------------------------------- specification: the teardown
\* the project opened with the model displayed; the tools, playback, edits
\* of the structure and of the weight settings, and a new project
InitTeardown ==
  /\ store = OpenedWorld.store
  /\ ac = OpenedWorld.ac
  /\ sb = OpenedWorld.sb
  /\ loadedModel = TRUE
  /\ nextId = 1
  /\ obs = NoObs
  /\ dialogs = InitialDialogs

NextTeardown ==
  \/ SetMode
  \/ OnPlayPause
  \/ HandleStop
  \/ HandleDropOnRoot
  \/ DeleteBoneCall
  \/ UpdateAutoWeightSettings
  \/ NewProject
  \/ OpenProject

SpecTeardown == InitTeardown /\ [][NextTeardown]_vars

\* C22: on every ACTIVE->INACTIVE transition of the binder all skinned meshes
\* are removed and every original mesh the binder had hidden is visible
\* again; while the binder is INACTIVE no original mesh is hidden by it and no
\* skinned mesh remains in the scene.
C22_InactiveBinderLeavesNoSkinnedMesh ==
  ~sb.isActive => (sb.hidden = {} /\ sb.inScene = {})

\* the binder was torn down by leaving the animate tool with playback stopped
C22_Witness ==
  /\ obs.op = "setMode" /\ obs.cleanups = 1
  /\ ~sb.isActive /\ loadedModel /\ BuildsSkeleton(store.skeleton)

\* --------------------------------------- specification: the full history
\* bone mode with a model imported; bones are added one after the other, and
\* once the history is full the edits are undone one after the other
InitHistory ==
  /\ store = BoneModeWorld.store
  /\ ac = BoneModeWorld.ac
  /\ sb = BoneModeWorld.sb
  /\ loadedModel = FALSE
  /\ nextId = 1
  /\ obs = NoObs
  /\ dialogs = InitialDialogs

\* store.addBone while nothing is undone
RecordedEdit ==
  /\ nextId <= MaxRecorded
  /\ store.historyIndex = Len(store.history) - 1
  /\ \E position \in PreviewPositions, name \in ClockNames :
       Commit([addBone(World, nextId, position, Null, name) EXCEPT
                 !.obs.op = "addBone", !.obs.id = nextId])
  /\ nextId' = nextId + 1
  /\ UNCHANGED loadedModel

\* Edit > Undo after maxHistorySize or more edits, while an entry is left
UndoRecorded ==
  /\ nextId - 1 >= maxHistorySize
  /\ store.historyIndex >= 0
  /\ Undo

NextHistory ==
  \/ RecordedEdit
  \/ UndoRecorded

SpecHistory == InitHistory /\ [][NextHistory]_vars

\* the number of undo operations since the last edit, once the history is full
UndoneSteps == (maxHistorySize - 1) - store.historyIndex

\* C23: after 50 or more history-recorded edits, 50 consecutive undo
\* operations each revert one edit: after the j-th undo the skeleton, the
\* weight map and the animations are those of j edits earlier (bones are only
\* appended here, so that skeleton is the one without the last j bones), and
\* after the 50th they are those of 50 edits earlier.
C23_FiftyUndosRevertFiftyEdits ==
  (obs.op = "undo" /\ nextId - 1 >= maxHistorySize) =>
    /\ store.skeleton =
         SubSeq(store.history[Len(store.history)].skeleton,
                1, (nextId - 1) - UndoneSteps)
    /\ store.weightMap = InitialStore.weightMap
    /\ store.animations = InitialStore.animations

\* ---------------------------------- specification: sampling at keyframes
\* the rig with an empty clip; keyframes of every property and interpolation
\* kind are set and moved, and both samplers are asked at the frames of the
\* stored keyframes
KeyedWorld == addAnimation(RiggedWorld, 3, "clip")

InitKeyed ==
  /\ store = KeyedWorld.store
  /\ ac = KeyedWorld.ac
  /\ sb = KeyedWorld.sb
  /\ loadedModel = FALSE
  /\ nextId = 4
  /\ obs = NoObs
  /\ dialogs = InitialDialogs

KeyedProperties == {"position", "rotation", "scale"}
KeyedInterpolations == {"step", "linear", "bezier"}
KeyedValues(property) ==
  IF property = "rotation" THEN {IdentityQuat, Quat(0, 0, 1, 0)}
  ELSE {V3(1, 1, 1), V3(0, 1, 0)}

\* store.addKeyframe on the second bone
KeyAt ==
  /\ CanEdit(1)
  /\ \E property \in KeyedProperties, frame \in KeyframeFrames,
        interpolation \in KeyedInterpolations :
       \E value \in KeyedValues(property) :
         Commit([addKeyframe(World, store.currentAnimationId, 2, property, frame,
                             value, interpolation) EXCEPT
                   !.obs.op = "addKeyframe", !.obs.id = 2])
  /\ UNCHANGED <<loadedModel, nextId>>

\* store.updateKeyframe with updates = {frame: to}
MoveKey ==
  /\ \E property \in KeyedProperties, frame \in KeyframeFrames,
        updates \in {[f \in {"frame"} |-> to] : to \in KeyframeFrames} :
       Commit([updateKeyframe(World, store.currentAnimationId, 2, property, frame,
                              updates) EXCEPT
                 !.obs.op = "updateKeyframe", !.obs.id = 2])
  /\ UNCHANGED <<loadedModel, nextId>>

\* the stored keyframes of the current clip: <<track index, keyframe index>>
StoredKeys ==
  LET tracks == CurrentClip(store).tracks
  IN  UNION {{<<tr, k>> : k \in DOMAIN tracks[tr].keyframes} : tr \in DOMAIN tracks}

SampledAt(op, track, keyframe, value) ==
  [op |-> op, property |-> track.property, interpolation |-> keyframe.interpolation,
   frame |-> keyframe.frame, stored |-> keyframe.value, value |-> value]

\* interpolateValue of the live evaluator at the frame of a stored keyframe
SampleLive ==
  /\ \E at \in StoredKeys :
       LET track == CurrentClip(store).tracks[at[1]]
           keyframe == track.keyframes[at[2]]
       IN  obs' = SampledAt("interpolateValue", track, keyframe,
                            interpolateValue(track.keyframes, keyframe.frame))
  /\ UNCHANGED <<store, ac, sb, loadedModel, nextId, dialogs>>

\* getAnimatedValueAtFrame of the exporter at the frame of a stored keyframe
SampleExport ==
  /\ \E at \in StoredKeys :
       LET track == CurrentClip(store).tracks[at[1]]
           keyframe == track.keyframes[at[2]]
       IN  obs' = SampledAt("getAnimatedValueAtFrame", track, keyframe,
                            getAnimatedValueAtFrame(CurrentClip(store).tracks,
                                                    track.boneId, track.property,
                                                    keyframe.frame))
  /\ UNCHANGED <<store, ac, sb, loadedModel, nextId, dialogs>>

NextKeyed ==
  \/ KeyAt
  \/ MoveKey
  \/ SampleLive
  \/ SampleExport

SpecKeyed == InitKeyed /\ [][NextKeyed]_vars

\* C24: sampling a track at a frame equal to a stored keyframe's frame
\* returns that keyframe's value unchanged, for each interpolation kind and
\* each property, in the live evaluator and in the export sampler.
C24_SampleAtKeyframeReturnsItsValue ==
  obs.op \in {"interpolateValue", "getAnimatedValueAtFrame"} =>
    obs.value = obs.stored

\* ------------------------------------------------ the weight calculator
\* Math.pow and Math.exp are not computed: the weight a method finds for a
\* bone is an input, 0 for a bone outside the envelope
WeightThreshold == Q(1, 1000)

\* calculateEnvelopeWeights and calculateHeatmapWeights: [index, weight] for
\* every bone whose weight exceeds 0.001, in the order of the bones
ThresholdWeights(candidates) ==
  LET kept == SelectSeq([b \in DOMAIN candidates |-> <<b - 1, candidates[b]>>],
                        LAMBDA e : RLt(WeightThreshold, e[2]))
  IN  kept

calculateNearestWeights(boneCount, nearestIndex) ==
  IF boneCount = 0 THEN <<>> ELSE <<<<nearestIndex, R(1)>>>>

\* a normalisation that returns the weights as they are
keepWeights(weights) == weights

normalizeWeights(weights) ==
  LET total == SumOfWeights(weights)
  IN  IF total = R(0) THEN weights
      ELSE [j \in DOMAIN weights |-> <<weights[j][1], RDiv(weights[j][2], total)>>]

\* calculateVertexWeights with options.normalizeWeights left at its default
calculateVertexWeights(method, candidates, nearestIndex) ==
  normalizeWeights(
    CASE method = "envelope" -> ThresholdWeights(candidates)
      [] method = "heatmap" -> ThresholdWeights(candidates)
      [] method = "nearest" -> calculateNearestWeights(Len(candidates), nearestIndex))

\* smoothWeights, one vertex of one iteration: the vertex's own pairs, then
\* the pairs of its neighbours scaled by neighborWeight
RECURSIVE NeighbourPairs(_, _, _)
NeighbourPairs(result, neighbors, neighborWeight) ==
  IF neighbors = <<>> THEN <<>>
  ELSE [j \in DOMAIN result[Head(neighbors)] |->
          <<result[Head(neighbors)][j][1],
            RMul(result[Head(neighbors)][j][2], neighborWeight)>>]
       \o NeighbourPairs(result, Tail(neighbors), neighborWeight)

\* the averages above 0.001 per bone index, in the order the Map got its keys
AveragedWeights(result, i, adjacency, neighborWeight) ==
  LET pairs == result[i] \o NeighbourPairs(result, adjacency[i], neighborWeight)
      first == SelectSeq([j \in DOMAIN pairs |-> j],
                         LAMBDA j : \A k \in 1..(j - 1) : pairs[k][1] # pairs[j][1])
      weightList(boneIdx) == SelectSeq(pairs, LAMBDA e : e[1] = boneIdx)
      avg(boneIdx) == RDiv(SumOfWeights(weightList(boneIdx)),
                           R(Len(weightList(boneIdx))))
      averaged == [j \in DOMAIN first |-> <<pairs[first[j]][1], avg(pairs[first[j]][1])>>]
  IN  SelectSeq(averaged, LAMBDA e : RLt(WeightThreshold, e[2]))

RECURSIVE smoothWeights(_, _, _, _)
smoothWeights(weights, adjacency, iterations, neighborWeight) ==
  IF iterations <= 0 THEN weights
  ELSE smoothWeights(
         [i \in DOMAIN weights |->
            normalizeWeights(AveragedWeights(weights, i, adjacency, neighborWeight))],
         adjacency, iterations - 1, neighborWeight)

\* buildVertexAdjacency of a geometry of one triangle without an index
TriangleAdjacency == <<<<2, 3>>, <<1, 3>>, <<2, 1>>>>

calculateAutomaticWeights(settings, candidates, nearest) ==
  [i \in DOMAIN candidates |->
     calculateVertexWeights(settings.method, candidates[i], nearest[i])]

calculateAutomaticWeightsForMesh(settings, candidates, nearest) ==
  IF settings.smoothIterations > 0
  THEN smoothWeights(calculateAutomaticWeights(settings, candidates, nearest),
                     TriangleAdjacency, settings.smoothIterations,
                     settings.neighborWeight)
  ELSE calculateAutomaticWeights(settings, candidates, nearest)

\* the lists the last normalisation of a run was handed
LastRawWeights(settings, candidates, nearest) ==
  IF settings.smoothIterations > 0
  THEN LET before == smoothWeights(calculateAutomaticWeights(settings, candidates, nearest),
                                   TriangleAdjacency, settings.smoothIterations - 1,
                                   settings.neighborWeight)
       IN  [i \in DOMAIN before |->
              AveragedWeights(before, i, TriangleAdjacency, settings.neighborWeight)]
  ELSE [i \in DOMAIN candidates |->
          IF settings.method = "nearest"
          THEN calculateNearestWeights(Len(candidates[i]), nearest[i])
          ELSE ThresholdWeights(candidates[i])]

\* ---------------------------------- specification: the weight calculator
\* the rig of two bones with any method, 0 to 2 smoothing passes and a
\* neighbour weight of 0, 1/2 or 1; the mesh is one triangle
WeightSettings ==
  {[method |-> m, falloff |-> Q(5, 2), smoothIterations |-> n, neighborWeight |-> nw] :
     m \in {"envelope", "heatmap", "nearest"}, n \in 0..2,
     nw \in {R(0), Q(1, 2), R(1)}}
\* the weights the method finds for the two bones at one vertex
VertexCandidates ==
  {<<R(0), R(0)>>, <<Q(1, 4), R(0)>>, <<Q(1, 4), R(1)>>, <<R(1), R(1)>>}

InitWeights ==
  \E settings \in WeightSettings :
    /\ store = updateAutoWeightSettings(RiggedWorld, settings).store
    /\ ac = updateAutoWeightSettings(RiggedWorld, settings).ac
    /\ sb = updateAutoWeightSettings(RiggedWorld, settings).sb
    /\ loadedModel = FALSE
    /\ nextId = 3
    /\ obs = NoObs
    /\ dialogs = InitialDialogs

\* calculateAutomaticWeightsForMesh for the mesh and the bones of the store
CalculateWeights ==
  /\ obs.op # "calculateAutomaticWeightsForMesh"
  /\ \E candidates \in [1..3 -> VertexCandidates],
        nearest \in [1..3 -> {0}] \cup [1..3 -> {Len(store.skeleton) - 1}] :
       obs' = [op |-> "calculateAutomaticWeightsForMesh",
               raw |-> LastRawWeights(store.autoWeightSettings, candidates, nearest),
               weights |-> calculateAutomaticWeightsForMesh(store.autoWeightSettings,
                                                            candidates, nearest)]
  /\ UNCHANGED <<store, ac, sb, loadedModel, nextId, dialogs>>

NextWeights == CalculateWeights

SpecWeights == InitWeights /\ [][NextWeights]_vars

\* C25: every per-vertex weight list the weight calculator returns, for each
\* method and with or without smoothing, is empty or has weights that sum to
\* 1, and a vertex whose raw weights (the list handed to the normalisation)
\* sum to 0 gets the empty list.
C25_WeightListsEmptyOrSumToOne ==
  obs.op = "calculateAutomaticWeightsForMesh" =>
    \A i \in DOMAIN obs.weights :
       /\ obs.weights[i] = <<>> \/ SumOfWeights(obs.weights[i]) = R(1)
       /\ SumOfWeights(obs.raw[i]) = R(0) => obs.weights[i] = <<>>

\* a smoothed run in which a vertex ends with two weights that the last
\* normalisation rescaled
C25_Witness ==
  /\ obs.op = "calculateAutomaticWeightsForMesh"
  /\ store.autoWeightSettings.smoothIterations > 0
  /\ \E i \in DOMAIN obs.weights :
       /\ Len(obs.weights[i]) = 2
       /\ SumOfWeights(obs.raw[i]) # R(1)

\* --------------------------------- specification: undo right after an edit
\* String.includes / String.replace on the names the editor hands out: none
\* of them holds '_left', '_right', '_l_' or '_r_' except the two listed
MirroredName(name) ==
  CASE name = "arm_left" -> "arm_right"
    [] name = "arm_right" -> "arm_left"
    [] OTHER -> name \o "_mirrored"

\* mirrorBones(axis); the uuids of the copies are firstId, firstId + 1, ...
mirrorBones(w, axis, firstId) ==
  LET s == w.store
      selectedBones == SelectSeq(s.skeleton,
                                 LAMBDA b : \E k \in DOMAIN s.selection.ids :
                                              s.selection.ids[k] = b.id)
      axisIndex == IF axis = "x" THEN 1 ELSE IF axis = "y" THEN 2 ELSE 3
      mirroredBone(k) ==
        [selectedBones[k] EXCEPT !.id = firstId + k - 1,
                                 !.position[axisIndex] = RNeg(@),
                                 !.name = MirroredName(@)]
  IN  IF selectedBones = <<>> THEN w
      ELSE pushHistory(Set(w, [s EXCEPT
             !.skeleton = @ \o [k \in DOMAIN selectedBones |-> mirroredBone(k)],
             !.isDirty = TRUE,
             !.restPoseSnapshot = NoSnapshot]))

\* Edit > Mirror Bones with the selected bones
MirrorBones ==
  /\ CanEdit(1)
  /\ store.selection.ids # <<>>
  /\ nextId + Len(store.selection.ids) - 1 <= MaxIds
  /\ \E axis \in {"x", "z"} :
       Commit([mirrorBones(World, axis, nextId) EXCEPT
                 !.obs.op = "mirrorBones", !.obs.id = nextId])
  /\ nextId' = nextId + Len(store.selection.ids)
  /\ UNCHANGED loadedModel

\* a root bone and an empty clip, in bone mode
UndoWorld ==
  addAnimation(addBone(BoneModeWorld, 1, V3(0, 0, 0), Null, "root"), 2, "clip")

InitUndo ==
  /\ store = UndoWorld.store
  /\ ac = UndoWorld.ac
  /\ sb = UndoWorld.sb
  /\ loadedModel = FALSE
  /\ nextId = 3
  /\ obs = NoObs
  /\ dialogs = InitialDialogs

\* the edits and selections made before the first undo
EditBeforeUndo ==
  /\ obs.op # "undo"
  /\ \/ AddBoneCall
     \/ DeleteBoneCall
     \/ SetBoneParentCall
     \/ Select
     \/ MirrorBones
     \/ AddKeyframeCall
     \/ DeleteKeyframeCall

NextUndo ==
  \/ EditBeforeUndo
  \/ Undo

SpecUndo == InitUndo /\ [][NextUndo]_vars

RecordedEdits ==
  {"addBone", "deleteBone", "setBoneParent", "mirrorBones", "addKeyframe",
   "deleteKeyframe"}

\* C26: undo called right after a history-recorded edit (addBone, deleteBone,
\* setBoneParent, mirrorBones, addKeyframe, deleteKeyframe) restores the
\* skeleton, the weight map and the animations to the values they had just
\* before that edit: for every step that is such an edit, undo applied to the
\* state the step ends in yields the values the step started from.
C26_UndoRestoresStateBeforeEdit ==
  [][obs'.op \in RecordedEdits =>
       /\ undo(World').store.skeleton = store.skeleton
       /\ undo(World').store.weightMap = store.weightMap
       /\ undo(World').store.animations = store.animations]_vars

\* ------------------------------ specification: the rest pose and playback
\* the opened chain project in animate mode; the clips are played and
\* scrubbed, the tool is changed, no bone is edited by hand
NextPose ==
  \/ Tick
  \/ HandlePlayPause
  \/ HandleStop
  \/ Scrub
  \/ ToggleLoop
  \/ SetMode

SpecPose == InitPlayback /\ [][NextPose]_vars

\* position, rotation and scale of every bone, in the order of the bones
PoseOf(bones) ==
  [i \in DOMAIN bones |-> [id |-> bones[i].id, position |-> bones[i].position,
                           rotation |-> bones[i].rotation, scale |-> bones[i].scale]]

\* C27: playing or scrubbing never changes the rest pose: with no manual bone
\* edit in between, when animate mode is left after any number of ticks and
\* scrubs, position, rotation and scale of every bone, and the skeleton that
\* getProjectData returns, are those from before the animation was first
\* applied (here the skeleton of the opened project).
C27_PlaybackKeepsRestPose ==
  (obs.op = "setMode" /\ store.mode # "animate") =>
    /\ PoseOf(store.skeleton) = PoseOf(ChainProject.skeleton)
    /\ ProjectDataSkeleton(store) = ChainProject.skeleton

\* ------------------------------- specification: forward kinematics
\* the opened projects of a root and a child with a position track, the root
\* with no track, a position track or a rotation track; the clip is played
\* and scrubbed
NextKinematics ==
  \/ Tick
  \/ Scrub
  \/ HandlePlayPause

SpecKinematics == InitRootMotion /\ [][NextKinematics]_vars

\* the position tracks of the current clip that hold a keyframe
PositionTracks(s) ==
  IF ~HasCurrentClip(s) THEN <<>>
  ELSE SelectSeq(CurrentClip(s).tracks,
                 LAMBDA track : track.property = "position" /\ track.keyframes # <<>>)

\* C28: the forward-kinematics pass changes the world position only of bones
\* without a position track in the current clip: after a frame callback in
\* which the pass ran, every bone with a position track of its own is at the
\* value sampled from that track at the applied frame.
C28_KeyedPositionSurvivesKinematics ==
  (obs.op = "tick" /\ obs.fkPasses > 0) =>
    \A k \in DOMAIN PositionTracks(store) :
       LET track == PositionTracks(store)[k]
       IN  BoneIndex(store.skeleton, track.boneId) # 0 =>
             store.skeleton[BoneIndex(store.skeleton, track.boneId)].position
               = interpolateValue(track.keyframes, ac.lastFrame)

\* ------------------------------------ specification: painted weights
updateMeshWeights(w, meshName, vertexWeights) ==
  Set(w, [w.store EXCEPT
    !.weightMap = [m \in DOMAIN @ \cup {meshName} |->
                     IF m = meshName THEN [vertexWeights |-> vertexWeights] ELSE @[m]],
    !.isDirty = TRUE])

\* WeightPaintOverlay.selectedBoneIndex: -1 unless exactly one bone is selected
selectedBoneIndex(s) ==
  IF s.selection.type # "bone" \/ Len(s.selection.ids) # 1 THEN -1
  ELSE BoneIndex(s.skeleton, s.selection.ids[1]) - 1

\* paint, one vertex within the brush radius
PaintVertex(vertexWeights, boneIdx, strength, brushMode) ==
  LET existingIdx == FindIndex(vertexWeights, LAMBDA e : e[1] = boneIdx)
      currentWeight == vertexWeights[existingIdx][2]
      painted ==
        IF existingIdx > 0
        THEN [vertexWeights EXCEPT ![existingIdx] =
                <<boneIdx,
                  CASE brushMode = "add" -> RMin(R(1), RAdd(currentWeight, strength))
                    [] brushMode = "subtract" -> RMax(R(0), RSub(currentWeight, strength))
                    [] brushMode = "smooth" ->
                         RAdd(RMul(currentWeight, Q(9, 10)), Q(1, 20))>>]
        ELSE IF brushMode = "add" THEN Append(vertexWeights, <<boneIdx, strength>>)
        ELSE vertexWeights
      totalWeight == SumOfWeights(painted)
  IN  IF RLt(R(0), totalWeight)
      THEN [j \in DOMAIN painted |-> <<painted[j][1], RDiv(painted[j][2], totalWeight)>>]
      ELSE painted

\* paint; strengths gives falloff * brushStrength for the vertices within the
\* brush radius (a vertex the stored array does not reach reads as [])
paint(w, strengths, brushMode) ==
  LET s == w.store
      currentWeights == IF MeshName \in DOMAIN s.weightMap
                        THEN s.weightMap[MeshName].vertexWeights
                        ELSE [i \in DOMAIN MeshVertices |-> <<>>]
      reach == CHOOSE n \in 0..Len(MeshVertices) :
                 /\ \A i \in DOMAIN strengths \cup DOMAIN currentWeights : i <= n
                 /\ n \in DOMAIN strengths \cup DOMAIN currentWeights \cup {0}
      at(i) == IF i \in DOMAIN currentWeights THEN currentWeights[i] ELSE <<>>
      newWeights == <<>> \o [i \in 1..reach |->
                      IF i \in DOMAIN strengths
                      THEN PaintVertex(at(i), selectedBoneIndex(s), strengths[i], brushMode)
                      ELSE at(i)]
  IN  updateMeshWeights(w, MeshName, newWeights)

BrushModes == {"add", "subtract", "smooth"}
BrushStrengths == {Q(1, 2)}

\* whether every stored weight has a denominator up to MaxDenominator
PaintBounded ==
  \A i \in DOMAIN StoredVertexWeights(store.weightMap) :
     \A j \in DOMAIN StoredVertexWeights(store.weightMap)[i] :
        StoredVertexWeights(store.weightMap)[i][j][2][2] <= MaxDenominator

\* a pointer move over the mesh while the button is down
Paint ==
  /\ Mounted(store) /\ loadedModel /\ store.mode = "weight-paint"
  /\ selectedBoneIndex(store) >= 0
  /\ PaintBounded
  /\ \E hit \in SUBSET (DOMAIN MeshVertices) \ {{}}, brushMode \in BrushModes :
       \E strengths \in [hit -> BrushStrengths] :
         Commit([paint(World, strengths, brushMode) EXCEPT !.obs.op = "paint"])
  /\ UNCHANGED <<loadedModel, nextId>>

\* a root and a child bone, the weight-paint tool chosen
PaintWorld ==
  setMode(addBone(addBone(BoneModeWorld, 1, V3(0, 0, 0), Null, "root"),
                  2, V3(1, 0, 0), 1, "bone_t1"), "weight-paint")

InitPaint ==
  /\ store = PaintWorld.store
  /\ ac = PaintWorld.ac
  /\ sb = PaintWorld.sb
  /\ loadedModel = TRUE
  /\ nextId = 3
  /\ obs = NoObs
  /\ dialogs = InitialDialogs

\* selections, strokes and edits, made while nothing is undone
PaintOrEdit ==
  /\ store.historyIndex = Len(store.history) - 1
  /\ \/ Select
     \/ Paint
     \/ AddBoneCall
     \/ DeleteBoneCall

NextPaint ==
  \/ PaintOrEdit
  \/ Undo
  \/ Redo

SpecPaint == InitPaint /\ [][NextPaint]_vars

\* the bone indices the weight map stores
StoredBoneIndices(weightMap) ==
  UNION {{StoredVertexWeights(weightMap)[i][j][1] :
            j \in DOMAIN StoredVertexWeights(weightMap)[i]} :
           i \in DOMAIN StoredVertexWeights(weightMap)}

\* C29: after any sequence of addBone, deleteBone, undo and redo every
\* boneIndex stored in the weight map is a valid index into skeleton.bones
\* and denotes the bone it denoted when the weight was stored: after every
\* step each stored index is within the bones, and while the weight map
\* is kept the bone at a stored index is the one that was there before.
C29_StoredBoneIndexDenotesItsBone ==
  [][\A boneIdx \in StoredBoneIndices(store'.weightMap) :
       /\ boneIdx \in 0..(Len(store'.skeleton) - 1)
       /\ (store'.weightMap = store.weightMap /\ boneIdx < Len(store.skeleton)
             /\ boneIdx < Len(store'.skeleton)) =>
            store'.skeleton[boneIdx + 1].id = store.skeleton[boneIdx + 1].id]_vars

\* --------------------------------------- specification: the clips
deleteAnimation(w, id) ==
  LET s == w.store
      kept == SelectSeq(s.animations, LAMBDA a : a.id # id)
  IN  Set(w, [s EXCEPT
        !.animations = kept,
        !.currentAnimationId =
          IF @ = id THEN (IF Len(kept) > 0 THEN kept[1].id ELSE Null) ELSE @,
        !.isDirty = TRUE])

\* store.deleteAnimation(id) with the id of a clip or of none
DeleteAnimation ==
  /\ \E id \in {store.animations[i].id : i \in DOMAIN store.animations} \cup {GhostId} :
       Commit([deleteAnimation(World, id) EXCEPT
                 !.obs.op = "deleteAnimation", !.obs.id = id])
  /\ UNCHANGED <<loadedModel, nextId>>

\* a root bone and a clip; clips are added, chosen, keyed and deleted, edits
\* are undone and redone
NextClips ==
  \/ AddAnimation
  \/ DeleteAnimation
  \/ SetCurrentAnimation
  \/ AddKeyframeCall
  \/ Undo
  \/ Redo

SpecClips == InitUndo /\ [][NextClips]_vars

\* C30: in every reachable state currentAnimationId is null or the id of a
\* clip that is present in animations, also after deleteAnimation, undo and
\* redo.
C30_CurrentAnimationIsPresent ==
  store.currentAnimationId = Null \/ HasCurrentClip(store)

====
